---------------------------- MODULE Spec2Model ----------------------------
(***************************************************************************)
(* Beat-alignment and duration-normalisation pipeline of preprocess.py.    *)
(*                                                                         *)
(* An audio buffer is a finite sequence of samples (mono: the code         *)
(* collapses every buffer to one channel before it is windowed).           *)
(* Confidence values are in hundredths (0.3 is 30).                        *)
(***************************************************************************)
EXTENDS Integers, Sequences, FiniteSets, TLC

(***************************************************************************)
(* Program constants (preprocess.py:18-20).                                *)
(***************************************************************************)
TARGET_DURATION == 16

TARGET_BPM == 120

(***************************************************************************)
(* Bounds of the model.                                                    *)
(***************************************************************************)
\* longest input buffer handed to ensure_exact_length on its own
MaxBufLen == 4

\* largest target sample count handed to ensure_exact_length on its own
MaxTarget == 6

\* sample values of the buffers of the length normaliser
SampleValues == {0, 1}

(***************************************************************************)
(* Helpers: Python / numpy / torch primitives the code relies on.          *)
(***************************************************************************)
Min(a, b) == IF a <= b THEN a ELSE b

Max(a, b) == IF a >= b THEN a ELSE b

\* int(np.ceil(a / b)) for a >= 0, b > 0
CeilDiv(a, b) == (a + b - 1) \div b

\* wav[:, :n] for n >= 0: the first n samples, or all of them if fewer
Take(wav, n) == SubSeq(wav, 1, Min(n, Len(wav)))

\* wav[:, s:] for 0 <= s: the samples from 0-based position s on
Drop(wav, s) == SubSeq(wav, Min(s, Len(wav)) + 1, Len(wav))

\* wav.repeat(1, k): k copies of the buffer, one after the other
RECURSIVE Repeat(_, _)
Repeat(wav, k) == IF k <= 0 THEN << >> ELSE wav \o Repeat(wav, k - 1)

\* all buffers of length lo..hi over the sample values S
BuffersOver(S, lo, hi) == UNION {[1..n -> S] : n \in lo..hi}

(***************************************************************************)
(* ensure_exact_length (preprocess.py:368-390).  A buffer of no samples    *)
(* makes the division raise; callers handle that case before they use the  *)
(* operator (see EnsureRaises).                                            *)
(***************************************************************************)
\* mutant: loops_needed rounded down instead of up
ensure_exact_length_floor(wav, target_samples) ==
    LET current_samples == Len(wav)
    IN  IF current_samples = target_samples THEN wav
        ELSE IF current_samples < target_samples
             THEN Take(Repeat(wav, target_samples \div current_samples),
                       target_samples)
             ELSE Take(wav, target_samples)

\* mutant: the tiled buffer is returned without the exact truncation
ensure_exact_length_notrunc(wav, target_samples) ==
    LET current_samples == Len(wav)
    IN  IF current_samples = target_samples THEN wav
        ELSE IF current_samples < target_samples
             THEN Repeat(wav, CeilDiv(target_samples, current_samples))
             ELSE Take(wav, target_samples)

\* mutant: a longer buffer keeps its last target_samples samples
ensure_exact_length_tail(wav, target_samples) ==
    LET current_samples == Len(wav)
    IN  IF current_samples = target_samples THEN wav
        ELSE IF current_samples < target_samples
             THEN Take(Repeat(wav, CeilDiv(target_samples, current_samples)),
                       target_samples)
             ELSE Drop(wav, current_samples - target_samples)

ensure_exact_length(wav, target_samples) ==
    LET current_samples == Len(wav)
    IN  IF current_samples = target_samples THEN wav
        ELSE IF current_samples < target_samples
             THEN LET loops_needed == CeilDiv(target_samples, current_samples)
                      extended_wav == Repeat(wav, loops_needed)
                  IN  Take(extended_wav, target_samples)
             ELSE Take(wav, target_samples)

\* target_samples / current_samples with current_samples = 0: ZeroDivisionError
EnsureRaises(wav, target_samples) ==
    Len(wav) = 0 /\ Len(wav) < target_samples

(***************************************************************************)
(* Optional values: Python's None and a present value.                     *)
(***************************************************************************)
None == << >>

Some(x) == <<x>>

IsNone(o) == o = << >>

Val(o) == o[1]

(***************************************************************************)
(* Bounds of the windower's inputs.                                        *)
(***************************************************************************)
\* sample rates handed to the pipeline are 1..MaxSampleRate (samples/second)
MaxSampleRate == 2

\* the windower on its own: target_beats is 1..MaxTargetBeats
MaxTargetBeats == 4

\* the windower on its own: the loaded mono buffer has 0..MaxWavLen samples
MaxWavLen == 3

\* beat times are multiples of 1/TicksPerSecond seconds, 0..MaxBeatTick
TicksPerSecond == 2

MaxBeatTick == 4

\* at most MaxBeats beats are tracked in one file
MaxBeats == 5

\* confidence values (hundredths) and thresholds the windower is run with
ConfidenceValues == {25, 30, 90}

ThresholdValues == {30}

\* tempo values (BPM) the beat tracker reports
TempoValues == {90, 120}

\* torchaudio.load after mono mix-down and resampling: samples are labelled
\* by their 1-based position in the file, so that content can be traced
LoadedWav(L) == [i \in 1..L |-> i]

\* strictly increasing sequences of n beat times (ticks)
BeatTimeSeqs(n) ==
    {bt \in [1..n -> 0..MaxBeatTick] : \A i \in 1..(n - 1) : bt[i] < bt[i + 1]}

(***************************************************************************)
(* estimate_downbeats_librosa (preprocess.py:104-172) as a function of     *)
(* what the signal analysis yields: num_beats beat frames, of which        *)
(* num_valid lie inside the onset envelope, and either an exception, or    *)
(* the first peak of the combined strength curve (None: no peak).          *)
(* Indices are 0-based, as in the code.                                    *)
(***************************************************************************)
RECURSIVE StrideFrom(_, _, _)
StrideFrom(pos, step, limit) ==
    IF pos < limit THEN <<pos>> \o StrideFrom(pos + step, step, limit)
    ELSE << >>

\* mutant: the stride is anchored at the first peak wherever it lies
estimate_downbeats_librosa_unanchored(num_beats, num_valid, raised, first_peak, time_signature) ==
    IF num_beats < time_signature
    THEN (IF num_beats > 0 THEN Some(<<0>>) ELSE Some(<< >>))
    ELSE IF raised THEN Some(<< >>)
    ELSE IF num_valid = 0 THEN Some(<< >>)
    ELSE IF IsNone(first_peak) THEN None
    ELSE Some(StrideFrom(Val(first_peak), time_signature, num_valid))

estimate_downbeats_librosa(num_beats, num_valid, raised, first_peak, time_signature) ==
    IF num_beats < time_signature
    THEN (IF num_beats > 0 THEN Some(<<0>>) ELSE Some(<< >>))
    ELSE IF raised THEN Some(<< >>)
    ELSE IF num_valid = 0 THEN Some(<< >>)
    ELSE IF IsNone(first_peak) THEN None        \* falls off the end of the try
    ELSE LET first_strong_beat ==
                 IF Val(first_peak) < time_signature THEN Val(first_peak) ELSE 0
         IN  Some(StrideFrom(first_strong_beat, time_signature, num_valid))

\* every downbeat result the estimator can give for num_beats beats:
\* find_peaks reports interior positions of the strength curve only, and the
\* curve has at most num_valid points
DownbeatOutcomes(num_beats) ==
    UNION {{estimate_downbeats_librosa(num_beats, nv, r, fp, 4) :
               r \in BOOLEAN,
               fp \in {None} \cup {Some(p) : p \in 1..(nv - 2)}} :
           nv \in 0..num_beats}

(***************************************************************************)
(* detect_beats_and_downbeats (preprocess.py:27-62): its four results.     *)
(* NoBeats is returned by the time-signature short-circuit and by the      *)
(* exception handler.                                                      *)
(***************************************************************************)
NoBeats ==
    [beat_times |-> None, downbeat_indices |-> None,
     detected_bpm |-> None, confidence |-> 0]

\* calculate_beat_confidence gives 0 for fewer than 3 beats
ConfidencesFor(n) == IF n < 3 THEN {0} ELSE ConfidenceValues

DetectionsWith(n) ==
    {[beat_times |-> Some(bt), downbeat_indices |-> db,
      detected_bpm |-> Some(tempo), confidence |-> c] :
        bt \in BeatTimeSeqs(n), db \in DownbeatOutcomes(n),
        tempo \in TempoValues, c \in ConfidencesFor(n)}

DetectionOutcomes ==
    {NoBeats} \cup UNION {DetectionsWith(n) : n \in 0..MaxBeats}

(***************************************************************************)
(* align_to_downbeat_and_normalize_beats (preprocess.py:226-366).          *)
(***************************************************************************)
\* int(target_beats * (60.0 / TARGET_BPM) * target_sample_rate)
TargetSamples(target_beats, target_sample_rate) ==
    (target_beats * 60 * target_sample_rate) \div TARGET_BPM

\* (beat_times * target_sample_rate).astype(int)
BeatSamples(beat_times, target_sample_rate) ==
    [i \in 1..Len(beat_times) |->
        (beat_times[i] * target_sample_rate) \div TicksPerSecond]

\* the for loop over downbeat_indices: the start of the first downbeat with
\* at least target_beats beats from it on; None if the loop never breaks
RECURSIVE FirstWithEnoughBeats(_, _, _, _)
FirstWithEnoughBeats(downbeat_indices, beat_samples, num_beats, target_beats) ==
    IF downbeat_indices = << >> THEN None
    ELSE LET downbeat_idx == Head(downbeat_indices)
             potential_start == beat_samples[downbeat_idx + 1]
             remaining_beats == num_beats - downbeat_idx
         IN  IF remaining_beats >= target_beats THEN Some(potential_start)
             ELSE FirstWithEnoughBeats(Tail(downbeat_indices), beat_samples,
                                       num_beats, target_beats)

\* mutant: when no downbeat has enough beats after it, sample 0 is used
ChooseStart_zero_when_none(downbeat_indices, beat_samples, target_beats) ==
    LET found == FirstWithEnoughBeats(downbeat_indices, beat_samples,
                                      Len(beat_samples), target_beats)
    IN  IF ~IsNone(found) THEN Val(found) ELSE 0

\* start_sample after the loop and the two fallbacks that follow it
ChooseStart(downbeat_indices, beat_samples, target_beats) ==
    LET found == FirstWithEnoughBeats(downbeat_indices, beat_samples,
                                      Len(beat_samples), target_beats)
    IN  IF ~IsNone(found) THEN Val(found)
        ELSE IF Len(downbeat_indices) > 0
             THEN beat_samples[downbeat_indices[1] + 1]
             ELSE 0

\* mutant: the looping branch repeats the whole buffer, not the remainder
ExtractSegment_tiles_whole(wav, start_sample, target_samples) ==
    LET end_sample == start_sample + target_samples
    IN  IF start_sample >= Len(wav)
        THEN [wav |-> wav, aligned |-> FALSE]
        ELSE IF end_sample <= Len(wav)
        THEN [wav |-> SubSeq(wav, start_sample + 1, end_sample),
              aligned |-> TRUE]
        ELSE [wav |-> Repeat(wav, CeilDiv(target_samples,
                                          Len(wav) - start_sample)),
              aligned |-> TRUE]

\* mutant: the branch that loops the remainder forgets beat_info['aligned']
ExtractSegment_loop_unmarked(wav, start_sample, target_samples) ==
    LET end_sample == start_sample + target_samples
    IN  IF start_sample >= Len(wav)
        THEN [wav |-> wav, aligned |-> FALSE]
        ELSE IF end_sample <= Len(wav)
        THEN [wav |-> SubSeq(wav, start_sample + 1, end_sample),
              aligned |-> TRUE]
        ELSE [wav |-> Repeat(Drop(wav, start_sample),
                             CeilDiv(target_samples, Len(wav) - start_sample)),
              aligned |-> FALSE]

\* the three extraction branches: the buffer before the final guarantee, and
\* whether the branch sets beat_info['aligned']
ExtractSegment(wav, start_sample, target_samples) ==
    LET end_sample == start_sample + target_samples
    IN  IF start_sample >= Len(wav)
        THEN [wav |-> wav, aligned |-> FALSE]
        ELSE IF end_sample <= Len(wav)
        THEN [wav |-> SubSeq(wav, start_sample + 1, end_sample),
              aligned |-> TRUE]
        ELSE LET available_samples == Len(wav) - start_sample
                 aligned_wav == Drop(wav, start_sample)
             IN  [wav |-> IF available_samples < target_samples
                          THEN Repeat(aligned_wav,
                                      CeilDiv(target_samples, available_samples))
                          ELSE aligned_wav,
                  aligned |-> TRUE]

\* mutant: the final exact-length guarantee of the aligned path is left out
WindowFrom_noguarantee(wav, start_sample, target_samples) ==
    ExtractSegment(wav, start_sample, target_samples).wav

\* the extracted segment after "GUARANTEE exact length" (line 326)
WindowFrom(wav, start_sample, target_samples) ==
    ensure_exact_length(ExtractSegment(wav, start_sample, target_samples).wav,
                        target_samples)

\* mutant: beat_info['aligned'] starts as True instead of False
BeatInfo_aligned_default(keys, bpm, conf, nbeats, ndown, aligned, start, target, actual) ==
    [keys |-> keys, detected_bpm |-> bpm, confidence |-> conf,
     num_beats |-> nbeats, num_downbeats |-> ndown,
     aligned |-> TRUE, start_sample |-> start,
     target_samples |-> target, actual_samples |-> actual]

\* beat_info: a dict; keys holds the keys that are set, the other fields
\* their values (0 / FALSE where the key is not set)
BeatInfo(keys, bpm, conf, nbeats, ndown, aligned, start, target, actual) ==
    [keys |-> keys, detected_bpm |-> bpm, confidence |-> conf,
     num_beats |-> nbeats, num_downbeats |-> ndown,
     aligned |-> aligned, start_sample |-> start,
     target_samples |-> target, actual_samples |-> actual]

FallbackKeys ==
    {"detected_bpm", "confidence", "num_beats", "num_downbeats", "aligned",
     "target_samples", "actual_samples"}

AlignedKeys == FallbackKeys \cup {"start_sample"}

HandlerKeys ==
    {"detected_bpm", "confidence", "aligned", "target_samples", "actual_samples"}

Raised == [raised |-> TRUE, wav |-> None, beat_info |-> None]

\* the try body from the detection on, up to (not including) the save:
\* raised, or the processed buffer and beat_info
TryBody(wav, det, target_beats, target_sample_rate, confidence_threshold) ==
    LET target_samples == TargetSamples(target_beats, target_sample_rate)
        num_beats == IF IsNone(det.beat_times) THEN 0
                     ELSE Len(Val(det.beat_times))
        num_downbeats == IF IsNone(det.downbeat_indices) THEN 0
                         ELSE Len(Val(det.downbeat_indices))
        fallback ==
            IF EnsureRaises(wav, target_samples) THEN Raised
            ELSE LET processed_wav == ensure_exact_length(wav, target_samples)
                 IN  [raised |-> FALSE, wav |-> Some(processed_wav),
                      beat_info |-> Some(BeatInfo(FallbackKeys, det.detected_bpm,
                          det.confidence, num_beats, num_downbeats, FALSE, 0,
                          target_samples, Len(processed_wav)))]
        aligned ==
            LET beat_samples == BeatSamples(Val(det.beat_times), target_sample_rate)
                start_sample == ChooseStart(Val(det.downbeat_indices),
                                            beat_samples, target_beats)
                seg == ExtractSegment(wav, start_sample, target_samples)
            IN  IF EnsureRaises(seg.wav, target_samples) THEN Raised
                ELSE LET processed_wav ==
                             WindowFrom(wav, start_sample, target_samples)
                     IN  [raised |-> FALSE, wav |-> Some(processed_wav),
                          beat_info |-> Some(BeatInfo(AlignedKeys,
                              det.detected_bpm, det.confidence, num_beats,
                              num_downbeats, seg.aligned, start_sample,
                              target_samples, Len(processed_wav)))]
    IN  IF \/ IsNone(det.beat_times)
           \/ det.confidence < confidence_threshold
           \/ num_beats < 4
        THEN fallback
        ELSE IF IsNone(det.downbeat_indices) THEN Raised   \* len(None)
        ELSE IF num_downbeats = 0 THEN fallback
        ELSE aligned

\* the except handler (lines 337-366): reload, normalise, save
Handler(load2, target_beats, target_sample_rate, save2_ok) ==
    LET target_samples == TargetSamples(target_beats, target_sample_rate)
    IN  IF IsNone(load2) \/ EnsureRaises(Val(load2), target_samples) \/ ~save2_ok
        THEN [success |-> FALSE, wav |-> None, beat_info |-> None,
              saved |-> None]
        ELSE LET processed_wav == ensure_exact_length(Val(load2), target_samples)
             IN  [success |-> TRUE, wav |-> Some(processed_wav),
                  beat_info |-> Some(BeatInfo(HandlerKeys, Some(TARGET_BPM), 0,
                      0, 0, FALSE, 0, target_samples, Len(processed_wav))),
                  saved |-> Some(processed_wav)]

\* The whole call.  load1 and load2 are what the two torchaudio.load calls
\* give (None: the call raised); save1_ok and save2_ok tell whether the two
\* torchaudio.save calls succeed.  saved is what the call leaves at
\* output_path (None: nothing written).
\* (tb: target_beats, sr: target_sample_rate, thr: confidence_threshold)
align_to_downbeat_and_normalize_beats(load1, det, tb, sr, thr, save1_ok, load2, save2_ok) ==
    LET body == IF IsNone(load1) THEN Raised
                ELSE TryBody(Val(load1), det, tb, sr, thr)
    IN  IF ~body.raised /\ save1_ok
        THEN [success |-> TRUE, wav |-> body.wav, beat_info |-> body.beat_info,
              saved |-> body.wav]
        ELSE Handler(load2, tb, sr, save2_ok)

(***************************************************************************)
(* Floating-point values of tempo_convert_ffmpeg as exact fractions        *)
(* [n, d] with d > 0, or d = 0 for an infinity (n = 1 or n = -1).  A       *)
(* quotient whose magnitude exceeds FloatMax overflows to an infinity, as  *)
(* a double does beyond its range.                                         *)
(***************************************************************************)
FloatMax == 16

RECURSIVE Gcd(_, _)
Gcd(a, b) == IF b = 0 THEN a ELSE Gcd(b, a % b)

Abs(x) == IF x < 0 THEN 0 - x ELSE x

Sign(x) == IF x < 0 THEN 0 - 1 ELSE IF x > 0 THEN 1 ELSE 0

\* the fraction n/d in lowest terms, overflowing to an infinity
Frac(n, d) ==
    IF d = 0 THEN [n |-> Sign(n), d |-> 0]
    ELSE LET s == Sign(d) * Sign(n)
             g == Gcd(Abs(n), Abs(d))
         IN  IF Abs(n) > FloatMax * Abs(d) THEN [n |-> s, d |-> 0]
             ELSE [n |-> s * (Abs(n) \div g), d |-> Abs(d) \div g]

FracLess(a, b) == a.n * b.d < b.n * a.d

FracMin(a, b) == IF FracLess(b, a) THEN b ELSE a

FracMax(a, b) == IF FracLess(a, b) THEN b ELSE a

\* a / b for b finite and not zero
FracDiv(a, b) == Frac(a.n * b.d, a.d * b.n)

One == Frac(1, 1)

Two == Frac(2, 1)

Half == Frac(1, 2)

(***************************************************************************)
(* tempo_convert_ffmpeg, the atempo chain (preprocess.py:670-696).         *)
(***************************************************************************)
\* the memory of the process holds an atempo_chain of at most MaxChain
\* factors: one more append exhausts it
MaxChain == 3

\* speed_ratio = target_bpm / original_bpm
SpeedRatio(target_bpm, original_bpm) == Frac(target_bpm, original_bpm)

\* which of the three branches builds the chain
ChainBranch(speed_ratio) ==
    IF FracLess(Two, speed_ratio) THEN "up"
    ELSE IF FracLess(speed_ratio, Half) THEN "down"
    ELSE "single"

\* the loop condition of the branch
ChainLoopRuns(branch, remaining) ==
    \/ branch = "up" /\ FracLess(One, remaining)
    \/ branch = "down" /\ FracLess(remaining, One)

\* mutant: the factor is not cut to the limits of the atempo filter
ChainFactor_uncut(branch, remaining) ==
    remaining

\* the factor one iteration appends
ChainFactor(branch, remaining) ==
    IF branch = "up" THEN FracMin(Two, remaining) ELSE FracMax(Half, remaining)

VARIABLES
    l_pc,       \* length normaliser: "idle", "start", "once" (applied), "twice"
    l_wav,      \* its input buffer
    l_target,   \* its target sample count
    l_out,      \* ensure_exact_length(l_wav, l_target)
    l_out2,     \* ensure_exact_length(l_out, l_target)
    a_pc,       \* windower: "idle", "start", "loaded", "detected", "done"
    a_args,     \* its arguments: target_beats, target_sample_rate, threshold
    a_len,      \* number of samples of the audio file at audio_path
    a_load,     \* what torchaudio.load gave (None: it raised)
    a_sig,      \* time signature detect_beats_and_downbeats estimated (None: not run)
    a_det,      \* what detect_beats_and_downbeats returned
    a_ret,      \* what the call returned and saved
    pc,             \* driver and per-file pipeline: the statement to run next
    cfg,            \* arguments of process_dataset_with_beat_alignment
    wav_files,      \* the work list
    idx,            \* position of the for loop in wav_files (0: before it)
    attempted,      \* files process_wav_with_beat_alignment was called on
    facts,          \* per file: what the file system and the gate reported
    original_bpm,   \* per-file local (None: not yet assigned)
    working_file,   \* per-file local: "input", "atempo", "asetrate", "before"
    final_bpm,      \* per-file local (None: not yet assigned)
    tc,             \* locals of tempo_convert_ffmpeg
    align_ret,      \* what align_to_downbeat_and_normalize_beats returned
    ret,            \* what the per-file call returned, or the exception
    temp_disk,      \* temp files on disk: <<file, kind>>
    processed_disk, \* per file: the clip at its processed path (None: none)
    file_mappings,  \* the driver's dict: the files it holds as keys
    beat_alignment_stats,
    skipped_files,
    reports,        \* the JSON reports written after the loop
    f_pc,       \* a function on its own: "idle", "call", "return"
    f_in,       \* its arguments and what the library calls inside it yield
    f_out       \* what it returned

lenVars == <<l_pc, l_wav, l_target, l_out, l_out2>>

alignVars == <<a_pc, a_args, a_len, a_load, a_sig, a_det, a_ret>>

driverVars == <<cfg, wav_files, idx, attempted>>

localVars == <<original_bpm, working_file, final_bpm, tc, align_ret, ret>>

diskVars == <<temp_disk, processed_disk>>

collectVars == <<file_mappings, beat_alignment_stats, skipped_files, reports>>

pipeVars == <<pc, driverVars, facts, localVars, diskVars, collectVars>>

funVars == <<f_pc, f_in, f_out>>

vars == <<lenVars, alignVars, pipeVars, funVars>>

(***************************************************************************)
(* Bounds and input sets of the batch.                                     *)
(***************************************************************************)
\* the input directory holds at most MaxFiles wav files, named 1..MaxFiles
MaxFiles == 2

Files == 1..MaxFiles

\* target_beats the batch is run with (32 is the default)
PipelineTargetBeats == {16, 32, 48}

\* BPM annotations and detected BPM values of input files
OriginalBpmValues == {0 - 60, 0, 50, 100, 119, 300}

\* BPM values detect_bpm reports for a converted candidate
CandidateBpmValues == {110, 120, 130}

\* sample counts of a working file: none, one, more than any target
PipelineLens == {0, 1, 2 * TARGET_DURATION * MaxSampleRate}

\* results of the beat detection on a working file that are tried in the
\* batch: no beats, and four beats, with a confidence below or above the
\* threshold and with no downbeat result or the downbeat at index 1
PipelineDetections ==
    {NoBeats} \cup
    {d \in DetectionsWith(4) :
        /\ Val(d.beat_times) = <<0, 1, 2, 3>>
        /\ Val(d.detected_bpm) = TARGET_BPM
        /\ d.confidence \in {25, 90}
        /\ d.downbeat_indices \in {None, Some(<<1>>)}}

NoFacts == [exists |-> None, readable |-> None, sig |-> None]

NoTempo ==
    [running |-> FALSE, branch |-> "single", remaining |-> One,
     chain |-> << >>, success_atempo |-> FALSE, success_asetrate |-> FALSE]

NoReports == [skipped |-> None, stats |-> None, summary |-> None]

\* the variables of a part of the program that is not running
LenIdle ==
    /\ l_pc = "idle" /\ l_wav = << >> /\ l_target = 0
    /\ l_out = << >> /\ l_out2 = << >>

AlignIdle ==
    /\ a_pc = "idle" /\ a_args = None /\ a_len = 0
    /\ a_load = None /\ a_sig = None /\ a_det = NoBeats /\ a_ret = None

FunIdle == f_pc = "idle" /\ f_in = None /\ f_out = None

LocalsUnset ==
    /\ original_bpm = None /\ working_file = "input" /\ final_bpm = None
    /\ tc = NoTempo /\ align_ret = None /\ ret = None

PipeIdle ==
    /\ pc = "idle" /\ cfg = None /\ wav_files = << >> /\ idx = 0
    /\ attempted = << >> /\ facts = [f \in Files |-> NoFacts]
    /\ LocalsUnset
    /\ temp_disk = {} /\ processed_disk = [f \in Files |-> None]
    /\ file_mappings = {} /\ beat_alignment_stats = << >>
    /\ skipped_files = << >> /\ reports = NoReports

(***************************************************************************)
(* The length normaliser on its own: every buffer of 1..MaxBufLen samples  *)
(* and every target of 1..MaxTarget samples, normalised once and then      *)
(* once more with the same target.                                         *)
(***************************************************************************)
InitLen ==
    /\ l_pc = "start"
    /\ l_wav \in BuffersOver(SampleValues, 1, MaxBufLen)
    /\ l_target \in 1..MaxTarget
    /\ l_out = << >>
    /\ l_out2 = << >>
    /\ AlignIdle
    /\ PipeIdle
    /\ FunIdle

NormalizeOnce ==
    /\ l_pc = "start"
    /\ l_out' = ensure_exact_length(l_wav, l_target)
    /\ l_pc' = "once"
    /\ UNCHANGED <<l_wav, l_target, l_out2, alignVars, pipeVars, funVars>>

NormalizeAgain ==
    /\ l_pc = "once"
    /\ l_out2' = ensure_exact_length(l_out, l_target)
    /\ l_pc' = "twice"
    /\ UNCHANGED <<l_wav, l_target, l_out, alignVars, pipeVars, funVars>>

NextLen ==
    \/ NormalizeOnce
    \/ NormalizeAgain

SpecLen == InitLen /\ [][NextLen]_vars

(***************************************************************************)
(* C3: ensure_exact_length returns exactly target_samples samples for      *)
(* every input of at least one sample and every target of at least one     *)
(* sample, whether the input is shorter, equal or longer.                  *)
(***************************************************************************)
C3_ExactLength ==
    /\ l_pc \in {"once", "twice"} => Len(l_out) = l_target
    /\ l_pc = "twice" => Len(l_out2) = l_target

\* a shorter input whose length does not divide the target was tiled and cut
C3_Witness ==
    /\ l_pc = "once"
    /\ Len(l_wav) < l_target
    /\ l_target % Len(l_wav) # 0
    /\ Len(l_out) = l_target

(***************************************************************************)
(* C4: ensure_exact_length is idempotent: a buffer whose length already    *)
(* equals the target is returned unchanged, and normalising the result a   *)
(* second time with the same target gives the same buffer.                 *)
(***************************************************************************)
C4_Idempotent ==
    /\ (l_pc = "once" /\ Len(l_wav) = l_target) => l_out = l_wav
    /\ l_pc = "twice" => l_out2 = l_out

\* a buffer that had to be tiled was normalised twice
C4_Witness ==
    /\ l_pc = "twice"
    /\ Len(l_wav) < l_target
    /\ l_target % Len(l_wav) # 0
    /\ l_out2 = l_out

(***************************************************************************)
(* C5: output sample i (0 <= i < target) is input sample (i mod n) when    *)
(* the input has n < target samples and input sample i when n >= target;   *)
(* sequences are 1-based here, so sample i is element i + 1.               *)
(***************************************************************************)
C5_SampleContent ==
    l_pc \in {"once", "twice"} =>
        /\ Len(l_out) = l_target
        /\ \A i \in 0..(l_target - 1) :
              l_out[i + 1] = IF Len(l_wav) < l_target
                                THEN l_wav[(i % Len(l_wav)) + 1]
                                ELSE l_wav[i + 1]

\* a longer buffer with two different sample values was cut to its prefix
C5_Witness ==
    /\ l_pc = "once"
    /\ Len(l_wav) > l_target
    /\ l_wav[1] # l_wav[Len(l_wav)]
    /\ l_out = SubSeq(l_wav, 1, l_target)

(***************************************************************************)
(* The windower on its own: one call of                                    *)
(* align_to_downbeat_and_normalize_beats on a file of a_len samples, with  *)
(* every result of the load, the detection and the saves.                  *)
(***************************************************************************)
InitAlign ==
    /\ LenIdle
    /\ PipeIdle
    /\ FunIdle
    /\ a_pc = "start"
    /\ a_args \in {Some([target_beats |-> tb, target_sample_rate |-> sr,
                         confidence_threshold |-> thr]) :
                      tb \in 1..MaxTargetBeats, sr \in 1..MaxSampleRate,
                      thr \in ThresholdValues}
    /\ a_len \in 0..MaxWavLen
    /\ a_load = None
    /\ a_sig = None
    /\ a_det = NoBeats
    /\ a_ret = None

\* torchaudio.load, mono mix-down, resampling (lines 234-244)
AlignLoad ==
    /\ a_pc = "start"
    /\ \E ok \in BOOLEAN :
          a_load' = IF ok THEN Some(LoadedWav(a_len)) ELSE None
    /\ a_pc' = "loaded"
    /\ UNCHANGED <<a_args, a_len, a_sig, a_det, a_ret, lenVars, pipeVars,
                   funVars>>

\* detect_beats_and_downbeats (line 247); not reached when the load raised.
\* It first estimates the time signature of the file itself and returns
\* (None, None, None, 0.0) at once when that is not 4 (lines 35-39).
AlignDetect ==
    /\ a_pc = "loaded"
    /\ IF IsNone(a_load) THEN UNCHANGED <<a_sig, a_det>>
       ELSE \E detected_time_sig \in {0, 3, 4, 6} :
               /\ a_sig' = Some(detected_time_sig)
               /\ a_det' \in IF detected_time_sig # 4 THEN {NoBeats}
                              ELSE DetectionOutcomes
    /\ a_pc' = "detected"
    /\ UNCHANGED <<a_args, a_len, a_load, a_ret, lenVars, pipeVars, funVars>>

\* windowing, save, and the except handler (lines 249-366)
AlignFinish ==
    /\ a_pc = "detected"
    /\ \E save1_ok \in BOOLEAN, load2_ok \in BOOLEAN, save2_ok \in BOOLEAN :
          a_ret' = Some(align_to_downbeat_and_normalize_beats(
                       a_load, a_det, Val(a_args).target_beats,
                       Val(a_args).target_sample_rate,
                       Val(a_args).confidence_threshold, save1_ok,
                       IF load2_ok THEN Some(LoadedWav(a_len)) ELSE None,
                       save2_ok))
    /\ a_pc' = "done"
    /\ UNCHANGED <<a_args, a_len, a_load, a_sig, a_det, lenVars, pipeVars,
                   funVars>>

NextAlign ==
    \/ AlignLoad
    \/ AlignDetect
    \/ AlignFinish

SpecAlign == InitAlign /\ [][NextAlign]_vars

\* the paths of one finished call
AlignSucceeded == a_pc = "done" /\ Val(a_ret).success

AlignInfo == Val(Val(a_ret).beat_info)

AlignTarget ==
    TargetSamples(Val(a_args).target_beats, Val(a_args).target_sample_rate)

(***************************************************************************)
(* C1: whenever align_to_downbeat_and_normalize_beats reports success,     *)
(* the buffer it returns (and saves) has exactly                           *)
(* int(target_beats * 60/TARGET_BPM * target_sample_rate) samples, on the  *)
(* fallback, aligned, start-beyond-end, looped and exception paths alike,  *)
(* and the recorded actual_samples equals the recorded target_samples.     *)
(***************************************************************************)
C1_WindowerExactLength ==
    AlignSucceeded =>
        /\ Len(Val(Val(a_ret).wav)) = AlignTarget
        /\ Val(a_ret).saved = Val(a_ret).wav
        /\ AlignInfo.target_samples = AlignTarget
        /\ AlignInfo.actual_samples = AlignInfo.target_samples

\* the start chosen from a downbeat lies at or beyond the end of the buffer
\* and the whole buffer had to be tiled up to the target
C1_Witness ==
    /\ AlignSucceeded
    /\ "start_sample" \in AlignInfo.keys
    /\ AlignInfo.start_sample >= a_len
    /\ a_len > 0
    /\ AlignTarget > a_len
    /\ AlignTarget % a_len # 0
    /\ Len(Val(Val(a_ret).wav)) = AlignTarget

(***************************************************************************)
(* The batch: process_dataset_with_beat_alignment (preprocess.py:490-602)  *)
(* run with align_beats on, as the main block does, calling                *)
(* process_wav_with_beat_alignment (lines 393-477) on each file.           *)
(***************************************************************************)
Orders(n) ==
    {p \in [1..n -> 1..n] : \A i, j \in 1..n : p[i] = p[j] => i = j}

\* the file the for loop is at
cur == wav_files[idx]

\* the 4-tuple process_wav_with_beat_alignment returns; site is "" for a
\* return and names the raising call when an exception leaves the function
Return(path, bpm, info, status) ==
    [path |-> path, final_bpm |-> bpm, beat_info |-> info,
     status |-> status, site |-> ""]

Exception(site) ==
    [path |-> None, final_bpm |-> None, beat_info |-> None,
     status |-> "exception", site |-> site]

\* estimate_time_signature (lines 66-101): 0 when anything raises, which an
\* undecodable file always does; otherwise 3, 4 or 6
TimeSigEstimates(readable) == IF readable THEN {0, 3, 4, 6} ELSE {0}

\* mutant: the sentinel 0 is let through the gate as if it were 4
GateRejects_zero_passes(detected_time_sig, required_time_sig) ==
    detected_time_sig # required_time_sig /\ detected_time_sig # 0

\* if detected_time_sig != required_time_sig (line 408)
GateRejects(detected_time_sig, required_time_sig) ==
    detected_time_sig # required_time_sig

\* mutant: a BPM exactly 1.0 away from the target is converted too
NeedsTempoConversion_from_one(preserve_bpm, bpm, target_bpm) ==
    ~preserve_bpm /\ bpm # 0 /\ Abs(bpm - target_bpm) >= 1

\* if not preserve_bpm and original_bpm and abs(original_bpm - target_bpm) > 1.0
NeedsTempoConversion(preserve_bpm, bpm, target_bpm) ==
    ~preserve_bpm /\ bpm # 0 /\ Abs(bpm - target_bpm) > 1

\* process_wav_with_beat_alignment returns or raises: its locals are gone
LocalsEnd ==
    /\ original_bpm' = None /\ working_file' = "input" /\ final_bpm' = None
    /\ tc' = NoTempo /\ align_ret' = None

\* the arguments of one run of the driver: every target_beats of
\* PipelineTargetBeats, preserve_bpm on and off, at the sample rate
\* MaxSampleRate
InitPipe ==
    /\ LenIdle
    /\ AlignIdle
    /\ FunIdle
    /\ pc = "start"
    /\ cfg \in {Some([target_beats |-> tb, target_sample_rate |-> sr,
                      preserve_bpm |-> pb, confidence_threshold |-> thr]) :
                   tb \in PipelineTargetBeats, sr \in {MaxSampleRate},
                   pb \in BOOLEAN, thr \in ThresholdValues}
    /\ wav_files = << >> /\ idx = 0 /\ attempted = << >>
    /\ facts = [f \in Files |-> NoFacts]
    /\ LocalsUnset
    /\ temp_disk = {} /\ processed_disk = [f \in Files |-> None]
    /\ file_mappings = {} /\ beat_alignment_stats = << >>
    /\ skipped_files = << >> /\ reports = NoReports

\* lines 501-520: the listing of the input directory, the optional shuffle
\* and the optional truncation to num_files
BuildWorkList ==
    /\ pc = "start"
    /\ \E n \in 0..MaxFiles, shuffle \in BOOLEAN,
          num_files \in {None} \cup {Some(k) : k \in 0..MaxFiles} :
          \E order \in (IF shuffle THEN Orders(n)
                        ELSE {[i \in 1..n |-> i]}) :
             wav_files' = IF IsNone(num_files) THEN order
                          ELSE Take(order, Val(num_files))
    /\ pc' = "loop"
    /\ UNCHANGED <<cfg, idx, attempted, facts, localVars, diskVars,
                   collectVars, lenVars, alignVars, funVars>>

\* line 529: the for loop takes the next file and calls the per-file function
LoopNext ==
    /\ pc = "loop"
    /\ idx < Len(wav_files)
    /\ idx' = idx + 1
    /\ attempted' = Append(attempted, wav_files[idx + 1])
    /\ pc' = "exists"
    /\ UNCHANGED <<cfg, wav_files, facts, localVars, diskVars, collectVars,
                   lenVars, alignVars, funVars>>

\* the for loop is over
LoopEnd ==
    /\ pc = "loop"
    /\ idx = Len(wav_files)
    /\ pc' = "reports"
    /\ UNCHANGED <<driverVars, facts, localVars, diskVars, collectVars,
                   lenVars, alignVars, funVars>>

\* lines 400-402
CheckExists ==
    /\ pc = "exists"
    /\ \E e \in BOOLEAN :
          /\ facts' = [facts EXCEPT ![cur].exists = Some(e)]
          /\ IF e THEN pc' = "gate" /\ ret' = ret
             ELSE /\ ret' = Some(Return(None, None, None, "failed"))
                  /\ pc' = "handle"
    /\ UNCHANGED <<driverVars, original_bpm, working_file, final_bpm, tc,
                   align_ret, diskVars, collectVars, lenVars, alignVars, funVars>>

\* lines 405-416: the time-signature gate.  estimate_time_signature catches
\* every exception itself, so the except branch of the gate never runs.
Gate ==
    /\ pc = "gate"
    /\ \E readable \in BOOLEAN :
          \E detected_time_sig \in TimeSigEstimates(readable) :
             /\ facts' = [facts EXCEPT ![cur].readable = Some(readable),
                                       ![cur].sig = Some(detected_time_sig)]
             /\ IF GateRejects(detected_time_sig, 4)
                THEN /\ ret' = Some(Return(None, None,
                            Some([detected_time_sig |-> detected_time_sig,
                                  required_time_sig |-> 4,
                                  reason |-> "time_signature_mismatch"]),
                            "skipped_time_sig"))
                     /\ pc' = "handle"
                ELSE pc' = "bpm" /\ ret' = ret
    /\ UNCHANGED <<driverVars, original_bpm, working_file, final_bpm, tc,
                   align_ret, diskVars, collectVars, lenVars, alignVars, funVars>>

\* line 421: get_file_bpm (lines 838-862): the metadata annotation or the
\* detected BPM; float() of a malformed annotation raises
ResolveBpm ==
    /\ pc = "bpm"
    /\ \/ /\ \E bpm \in OriginalBpmValues : original_bpm' = Some(bpm)
          /\ pc' = "branch"
          /\ ret' = ret
       \/ /\ ret' = Some(Exception("get_file_bpm"))
          /\ pc' = "handle"
          /\ original_bpm' = original_bpm
    /\ UNCHANGED <<driverVars, facts, working_file, final_bpm, tc, align_ret,
                   diskVars, collectVars, lenVars, alignVars, funVars>>

\* line 425 and, for a conversion, lines 670-680 of tempo_convert_ffmpeg;
\* otherwise lines 432-433
Branch ==
    /\ pc = "branch"
    /\ LET bpm == Val(original_bpm)
           speed_ratio == SpeedRatio(TARGET_BPM, bpm)
           branch == ChainBranch(speed_ratio)
       IN  IF NeedsTempoConversion(Val(cfg).preserve_bpm, bpm, TARGET_BPM)
           THEN /\ tc' = [running |-> TRUE, branch |-> branch,
                          remaining |-> speed_ratio,
                          chain |-> IF branch = "single" THEN <<speed_ratio>>
                                    ELSE << >>,
                          success_atempo |-> FALSE,
                          success_asetrate |-> FALSE]
                /\ pc' = IF branch = "single" THEN "atempo" ELSE "chain"
                /\ UNCHANGED <<working_file, final_bpm>>
           ELSE /\ working_file' = "input"
                /\ final_bpm' = Some(IF bpm # 0 THEN bpm ELSE TARGET_BPM)
                /\ pc' = "resample"
                /\ tc' = tc
    /\ UNCHANGED <<driverVars, facts, original_bpm, align_ret, ret, diskVars,
                   collectVars, lenVars, alignVars, funVars>>

\* one iteration of the while loop at line 685 or 691
ChainStep ==
    /\ pc = "chain"
    /\ ChainLoopRuns(tc.branch, tc.remaining)
    /\ Len(tc.chain) < MaxChain
    /\ LET factor == ChainFactor(tc.branch, tc.remaining)
       IN  tc' = [tc EXCEPT !.chain = Append(tc.chain, factor),
                            !.remaining = FracDiv(tc.remaining, factor)]
    /\ pc' = "chain"
    /\ UNCHANGED <<driverVars, facts, original_bpm, working_file, final_bpm,
                   align_ret, ret, diskVars, collectVars, lenVars, alignVars, funVars>>

\* the while loop at line 691 whose condition never turns false (a negative
\* speed_ratio: remaining only moves away from 1.0) appends until memory
\* is exhausted.  Then either the append raises MemoryError, which leaves
\* tempo_convert_ffmpeg and process_wav_with_beat_alignment, or the
\* operating system kills the process.
ChainExhaust ==
    /\ pc = "chain"
    /\ ChainLoopRuns(tc.branch, tc.remaining)
    /\ Len(tc.chain) = MaxChain
    /\ \/ /\ ret' = Some(Exception("tempo_convert_ffmpeg"))
          /\ pc' = "handle"
          /\ LocalsEnd
       \/ /\ pc' = "killed"
          /\ UNCHANGED localVars
    /\ UNCHANGED <<driverVars, facts, diskVars, collectVars, lenVars,
                   alignVars, funVars>>

\* the loop condition is false
ChainDone ==
    /\ pc = "chain"
    /\ ~ChainLoopRuns(tc.branch, tc.remaining)
    /\ pc' = "atempo"
    /\ UNCHANGED <<driverVars, facts, localVars, diskVars, collectVars,
                   lenVars, alignVars, funVars>>

(***************************************************************************)
(* run_ffmpeg_command (lines 606-612): subprocess.run with check=True      *)
(* ends with exit status 0, with a non-zero exit status                    *)
(* (CalledProcessError, caught), or raises OSError because the program     *)
(* cannot be started (not caught).                                         *)
(***************************************************************************)
FfmpegOutcomes == {"exit0", "nonzero", "oserror"}

run_ffmpeg_command(outcome) ==
    [raised |-> outcome = "oserror", success |-> outcome = "exit0"]

\* mutant: on equal errors the later candidate replaces the earlier one
SelectBest_later_wins(usable_atempo, error_atempo, usable_asetrate, error_asetrate) ==
    LET after_atempo == IF usable_atempo THEN "atempo" ELSE "input"
    IN  IF usable_asetrate /\ (~usable_atempo \/ error_asetrate <= error_atempo)
        THEN "asetrate"
        ELSE after_atempo

\* lines 724-754: the candidate returned, given for each method whether it
\* is usable (succeeded and its file exists) and its BPM error
SelectBest(usable_atempo, error_atempo, usable_asetrate, error_asetrate) ==
    LET after_atempo == IF usable_atempo THEN "atempo" ELSE "input"
    IN  IF usable_asetrate /\ (~usable_atempo \/ error_asetrate < error_atempo)
        THEN "asetrate"
        ELSE after_atempo

\* lines 698-707: the atempo command
RunAtempo ==
    /\ pc = "atempo"
    /\ \E outcome \in FfmpegOutcomes, partial \in BOOLEAN :
          LET r == run_ffmpeg_command(outcome)
          IN  /\ (outcome # "nonzero") => ~partial
              /\ IF r.raised
                 THEN /\ ret' = Some(Exception("tempo_convert_ffmpeg"))
                      /\ pc' = "handle"
                      /\ LocalsEnd
                      /\ temp_disk' = temp_disk
                 ELSE /\ tc' = [tc EXCEPT !.success_atempo = r.success]
                      /\ temp_disk' = IF r.success \/ partial
                                      THEN temp_disk \cup {<<cur, "atempo">>}
                                      ELSE temp_disk
                      /\ pc' = "asetrate"
                      /\ UNCHANGED <<original_bpm, working_file, final_bpm,
                                     align_ret, ret>>
    /\ UNCHANGED <<driverVars, facts, processed_disk, collectVars, lenVars,
                   alignVars, funVars>>

\* lines 709-722: torchaudio.info of the input, then the asetrate command
RunAsetrate ==
    /\ pc = "asetrate"
    /\ \E info_ok \in BOOLEAN, outcome \in FfmpegOutcomes, partial \in BOOLEAN :
          LET r == run_ffmpeg_command(outcome)
          IN  /\ (outcome # "nonzero") => ~partial
              /\ ~info_ok => outcome = "exit0"
              /\ IF ~info_ok \/ r.raised
                 THEN /\ ret' = Some(Exception("tempo_convert_ffmpeg"))
                      /\ pc' = "handle"
                      /\ LocalsEnd
                      /\ temp_disk' = temp_disk
                 ELSE /\ tc' = [tc EXCEPT !.success_asetrate = r.success]
                      /\ temp_disk' = IF r.success \/ partial
                                      THEN temp_disk \cup {<<cur, "asetrate">>}
                                      ELSE temp_disk
                      /\ pc' = "select"
                      /\ UNCHANGED <<original_bpm, working_file, final_bpm,
                                     align_ret, ret>>
    /\ UNCHANGED <<driverVars, facts, processed_disk, collectVars, lenVars,
                   alignVars, funVars>>

\* lines 724-754, and lines 429-430 of the caller
SelectCandidate ==
    /\ pc = "select"
    /\ \E bpm_atempo \in CandidateBpmValues, bpm_asetrate \in CandidateBpmValues :
          working_file' = SelectBest(
              tc.success_atempo /\ <<cur, "atempo">> \in temp_disk,
              Abs(bpm_atempo - TARGET_BPM),
              tc.success_asetrate /\ <<cur, "asetrate">> \in temp_disk,
              Abs(bpm_asetrate - TARGET_BPM))
    /\ final_bpm' = Some(TARGET_BPM)
    /\ tc' = [tc EXCEPT !.running = FALSE]
    /\ pc' = "align"
    /\ UNCHANGED <<driverVars, facts, original_bpm, align_ret, ret, diskVars,
                   collectVars, lenVars, alignVars, funVars>>

\* lines 435-441: no tempo conversion; the sample rate is converted into
\* temp_before_alignment_<name> if it differs.  torchaudio.info, load and
\* save can raise.
Resample ==
    /\ pc = "resample"
    /\ \E info_ok \in BOOLEAN, differs \in BOOLEAN, written \in BOOLEAN :
          /\ ~info_ok => (~differs /\ ~written)
          /\ ~differs => ~written
          /\ IF ~info_ok \/ (differs /\ ~written)
             THEN /\ ret' = Some(Exception("resample"))
                  /\ pc' = "handle"
                  /\ LocalsEnd
                  /\ temp_disk' = temp_disk
             ELSE /\ working_file' = IF differs THEN "before" ELSE "input"
                  /\ temp_disk' = IF differs
                                  THEN temp_disk \cup {<<cur, "before">>}
                                  ELSE temp_disk
                  /\ pc' = "align"
                  /\ UNCHANGED <<original_bpm, final_bpm, tc, align_ret, ret>>
    /\ UNCHANGED <<driverVars, facts, processed_disk, collectVars, lenVars,
                   alignVars, funVars>>

\* the calls of one run of the windower that are reached: the detection
\* and the first save only after the first load, the handler's load and
\* save only after something raised (a call not reached gets one value)
AlignCallsReached(load1, det, tb, sr, thr, save1_ok, load2_ok, save2_ok) ==
    /\ IsNone(load1) => (det = NoBeats /\ save1_ok)
    /\ (~IsNone(load1) /\ TryBody(Val(load1), det, tb, sr, thr).raised)
          => save1_ok
    /\ (~IsNone(load1) /\ ~TryBody(Val(load1), det, tb, sr, thr).raised
          /\ save1_ok) => (load2_ok /\ save2_ok)

\* lines 443-447: the windower on the working file; it saves its clip at
\* the processed path
Align ==
    /\ pc = "align"
    /\ \E load1_ok \in BOOLEAN, L \in PipelineLens, det \in PipelineDetections,
          save1_ok \in BOOLEAN, load2_ok \in BOOLEAN, save2_ok \in BOOLEAN :
          LET load1 == IF load1_ok THEN Some(LoadedWav(L)) ELSE None
              tb == Val(cfg).target_beats
              sr == Val(cfg).target_sample_rate
              thr == Val(cfg).confidence_threshold
              r == align_to_downbeat_and_normalize_beats(
                       load1, det, tb, sr, thr, save1_ok,
                       IF load2_ok THEN Some(LoadedWav(L)) ELSE None, save2_ok)
          IN  /\ AlignCallsReached(load1, det, tb, sr, thr, save1_ok,
                                   load2_ok, save2_ok)
              /\ align_ret' = Some(r)
              /\ processed_disk' = IF IsNone(r.saved) THEN processed_disk
                                   ELSE [processed_disk EXCEPT ![cur] = r.saved]
    /\ pc' = "cleanup"
    /\ UNCHANGED <<driverVars, facts, original_bpm, working_file, final_bpm,
                   tc, ret, temp_disk, collectVars, lenVars, alignVars, funVars>>

\* the three temp file names of a file
TempNames(f) == {<<f, "atempo">>, <<f, "asetrate">>, <<f, "before">>}

\* mutant: the temp files are removed before the windower is called
Cleanup_before_windower ==
    /\ pc = "align"
    /\ temp_disk \cap TempNames(cur) # {}
    /\ temp_disk' = temp_disk \ TempNames(cur)
    /\ pc' = "align"
    /\ UNCHANGED <<driverVars, facts, localVars, processed_disk, collectVars,
                   lenVars, alignVars, funVars>>

\* lines 449-460: os.remove of each temp file that exists (the removals
\* are taken to succeed; a failing one is swallowed by the code)
Cleanup ==
    /\ pc = "cleanup"
    /\ temp_disk' = temp_disk \ TempNames(cur)
    /\ pc' = "final"
    /\ UNCHANGED <<driverVars, facts, localVars, processed_disk, collectVars,
                   lenVars, alignVars, funVars>>

\* lines 462-477: the clip is forced to TARGET_DURATION seconds and saved
\* again at the processed path
FinalSave ==
    /\ pc = "final"
    /\ LET r == Val(align_ret)
           target_samples_16sec == TARGET_DURATION * Val(cfg).target_sample_rate
       IN  IF ~r.success
           THEN /\ ret' = Some(Return(None, None, None, "failed"))
                /\ processed_disk' = processed_disk
           ELSE IF EnsureRaises(Val(r.wav), target_samples_16sec)
           THEN /\ ret' = Some(Exception("ensure_exact_length"))
                /\ processed_disk' = processed_disk
           ELSE \E save_ok \in BOOLEAN :
                  IF save_ok
                  THEN /\ processed_disk' = [processed_disk EXCEPT ![cur] =
                              Some(ensure_exact_length(Val(r.wav),
                                                       target_samples_16sec))]
                       /\ ret' = Some(Return(Some(cur), final_bpm,
                                             r.beat_info, "success"))
                  ELSE /\ ret' = Some(Exception("torchaudio.save"))
                       /\ processed_disk' = processed_disk
    /\ pc' = "handle"
    /\ LocalsEnd
    /\ UNCHANGED <<driverVars, facts, temp_disk, collectVars, lenVars,
                   alignVars, funVars>>

\* lines 548-566: what the driver does with the result of one file; an
\* exception is printed and the loop goes on
HandleResult ==
    /\ pc = "handle"
    /\ LET r == Val(ret)
       IN  /\ file_mappings' = IF r.status = "success"
                               THEN file_mappings \cup {cur}
                               ELSE file_mappings
           /\ beat_alignment_stats' =
                 IF r.status = "success" /\ ~IsNone(r.beat_info)
                 THEN Append(beat_alignment_stats,
                             [file |-> cur, beat_info |-> Val(r.beat_info),
                              final_bpm |-> Val(r.final_bpm)])
                 ELSE beat_alignment_stats
           /\ skipped_files' =
                 IF r.status = "skipped_time_sig"
                 THEN Append(skipped_files,
                             [file |-> cur,
                              time_sig |-> Val(r.beat_info).detected_time_sig,
                              reason |-> "time_signature_mismatch"])
                 ELSE skipped_files
    /\ ret' = None
    /\ pc' = "loop"
    /\ UNCHANGED <<driverVars, facts, original_bpm, working_file, final_bpm,
                   tc, align_ret, diskVars, reports, lenVars, alignVars, funVars>>

RECURSIVE SumConfidence(_)
SumConfidence(stats) ==
    IF stats = << >> THEN 0
    ELSE Head(stats).beat_info.confidence + SumConfidence(Tail(stats))

\* json.dump cannot encode start_sample, which the aligned path takes from
\* the numpy array beat_samples (lines 277-295, 331): a numpy int64
JsonEncodable(stat) == "start_sample" \notin stat.beat_info.keys

\* the entries json.dump writes before it meets one it cannot encode
RECURSIVE EncodablePrefix(_)
EncodablePrefix(stats) ==
    IF stats = << >> \/ ~JsonEncodable(Head(stats)) THEN << >>
    ELSE <<Head(stats)>> \o EncodablePrefix(Tail(stats))

\* lines 581-593
SummaryStats(stats) ==
    LET aligned_count ==
            Cardinality({i \in 1..Len(stats) : stats[i].beat_info.aligned})
        total_count == Len(stats)
    IN  [total_files |-> total_count,
         successfully_aligned |-> aligned_count,
         alignment_success_rate |-> [n |-> aligned_count, d |-> total_count],
         average_confidence |-> [n |-> SumConfidence(stats), d |-> total_count],
         target_beats |-> Val(cfg).target_beats,
         confidence_threshold |-> Val(cfg).confidence_threshold]

\* lines 568-602: skipped_files.json, beat_alignment_stats.json and
\* beat_alignment_summary.json.  A TypeError of json.dump leaves the
\* function, with the statistics file cut short and no summary.
WriteReports ==
    /\ pc = "reports"
    /\ LET stats == beat_alignment_stats
           written == EncodablePrefix(stats)
           complete == written = stats
       IN  /\ reports' =
                 [skipped |-> IF skipped_files # << >> THEN Some(skipped_files)
                              ELSE None,
                  stats |-> IF stats # << >> THEN Some(written) ELSE None,
                  summary |-> IF stats # << >> /\ complete
                              THEN Some(SummaryStats(stats)) ELSE None]
           /\ pc' = IF complete THEN "done" ELSE "crashed"
    /\ UNCHANGED <<driverVars, facts, localVars, diskVars, file_mappings,
                   beat_alignment_stats, skipped_files, lenVars, alignVars, funVars>>

Next ==
    \/ BuildWorkList
    \/ LoopNext
    \/ LoopEnd
    \/ CheckExists
    \/ Gate
    \/ ResolveBpm
    \/ Branch
    \/ ChainStep
    \/ ChainExhaust
    \/ ChainDone
    \/ RunAtempo
    \/ RunAsetrate
    \/ SelectCandidate
    \/ Resample
    \/ Align
    \/ Cleanup
    \/ FinalSave
    \/ HandleResult
    \/ WriteReports

Init == InitPipe

Spec == Init /\ [][Next]_vars

\* the program is one sequential process: it takes its next step whenever
\* it has one
FairSpec == Spec /\ WF_vars(Next)


\* what a finished batch left: the run is over, normally or by the TypeError
\* of json.dump
BatchOver == pc \in {"done", "crashed"}

\* process_wav_with_beat_alignment is running on file f
InProgress(f) ==
    /\ pc \notin {"start", "loop", "reports", "done", "crashed"}
    /\ idx > 0
    /\ cur = f

\* the gate looked at file f and its estimate was not 4
GateRejected(f) ==
    /\ ~IsNone(facts[f].sig)
    /\ Val(facts[f].sig) # 4

(***************************************************************************)
(* C2: for every file the per-file function finishes with status success,  *)
(* the clip finally saved at the processed path has exactly                *)
(* target_beats * 60/TARGET_BPM * sample_rate samples, for every           *)
(* configured target_beats.  Violated: lines 463-465 force                 *)
(* TARGET_DURATION * sample_rate samples whatever target_beats is.         *)
(***************************************************************************)
C2_SavedClipLength ==
    (pc = "handle" /\ Val(ret).status = "success") =>
        /\ ~IsNone(processed_disk[cur])
        /\ Len(Val(processed_disk[cur])) =
              TargetSamples(Val(cfg).target_beats, Val(cfg).target_sample_rate)

(***************************************************************************)
(* C6: when the gate's estimate for an existing file is not 4 (3, 6 or the *)
(* sentinel 0), the per-file function returns skipped_time_sig with no     *)
(* output path and writes no processed file; the driver lists the file in  *)
(* the skipped-files report, exactly once, and never in the success        *)
(* mappings or the alignment statistics.                                   *)
(***************************************************************************)
C6_GateSkips ==
    \A f \in Files :
        GateRejected(f) =>
            /\ facts[f].exists = Some(TRUE)
            /\ (pc = "handle" /\ cur = f) =>
                  /\ Val(ret).status = "skipped_time_sig"
                  /\ IsNone(Val(ret).path)
                  /\ Val(Val(ret).beat_info).detected_time_sig =
                         Val(facts[f].sig)
            /\ IsNone(processed_disk[f])
            /\ f \notin file_mappings
            /\ \A i \in 1..Len(beat_alignment_stats) :
                  beat_alignment_stats[i].file # f
            /\ ~InProgress(f) =>
                  Cardinality({i \in 1..Len(skipped_files) :
                                  skipped_files[i].file = f}) = 1
            /\ BatchOver =>
                  /\ ~IsNone(reports.skipped)
                  /\ \E i \in 1..Len(Val(reports.skipped)) :
                        /\ Val(reports.skipped)[i].file = f
                        /\ Val(reports.skipped)[i].time_sig = Val(facts[f].sig)
                  /\ ~IsNone(reports.stats) =>
                        \A i \in 1..Len(Val(reports.stats)) :
                            Val(reports.stats)[i].file # f

\* a batch of two files is over: a readable one whose estimate was the
\* sentinel 0 is in the skipped-files report, the other one succeeded
C6_Witness ==
    /\ pc = "done"
    /\ \E f \in Files :
          /\ facts[f].readable = Some(TRUE)
          /\ facts[f].sig = Some(0)
          /\ \E i \in 1..Len(Val(reports.skipped)) :
                Val(reports.skipped)[i].file = f
          /\ file_mappings = Files \ {f}
          /\ file_mappings # {}

(***************************************************************************)
(* C7: for an input path that does not exist, or whose audio cannot be     *)
(* read or decoded, the per-file function ends with status failed (not     *)
(* success, not skipped_time_sig) and no exception leaves it.  Violated:   *)
(* estimate_time_signature turns the decoding error into the estimate 0,   *)
(* so an unreadable file ends with skipped_time_sig.                       *)
(***************************************************************************)
C7_MissingOrCorruptFails ==
    (/\ pc = "handle"
     /\ \/ facts[cur].exists = Some(FALSE)
        \/ facts[cur].readable = Some(FALSE)) =>
        Val(ret).status = "failed"

(***************************************************************************)
(* C8: every file of the work list is attempted exactly once, in list      *)
(* order, whatever happened to the files before it, and the per-file loop  *)
(* always reaches the end of the list.  Violated: for a negative metadata  *)
(* BPM the chain loop of tempo_convert_ffmpeg never ends (C27), and the    *)
(* process can be killed for its memory inside that file.                  *)
(***************************************************************************)
C8_LoopReachesEnd ==
    /\ [](attempted = Take(wav_files, idx))
    /\ <>(/\ pc \in {"reports", "done", "crashed"}
          /\ attempted = wav_files)

(***************************************************************************)
(* C9: after the batch every attempted file has exactly one persisted      *)
(* record, with status success (the statistics file), skipped_time_sig     *)
(* (the skipped-files file) or failed.  Violated: nothing is written for   *)
(* a file that failed or raised, and a statistics file cut short by the    *)
(* TypeError of json.dump loses records of successful files too.           *)
(***************************************************************************)
C9_OneRecordPerFile ==
    BatchOver =>
        \A k \in 1..Len(attempted) :
            LET f == attempted[k]
                skipped == IF IsNone(reports.skipped) THEN << >>
                           ELSE Val(reports.skipped)
                stats == IF IsNone(reports.stats) THEN << >>
                         ELSE Val(reports.stats)
            IN  Cardinality({i \in 1..Len(skipped) : skipped[i].file = f})
                + Cardinality({i \in 1..Len(stats) : stats[i].file = f}) = 1

(***************************************************************************)
(* C10: tempo_convert_ffmpeg never raises; when both conversions failed it *)
(* returns the input path; it returns a temp candidate only when that      *)
(* candidate's conversion succeeded and its file exists.  Violated:        *)
(* run_ffmpeg_command catches CalledProcessError only, so the OSError of   *)
(* an ffmpeg that cannot be started, and an error of torchaudio.info,      *)
(* leave tempo_convert_ffmpeg.                                             *)
(***************************************************************************)
C10_TempoConvertNeverRaises ==
    /\ (pc = "handle" /\ Val(ret).status = "exception") =>
          Val(ret).site # "tempo_convert_ffmpeg"
    /\ pc # "killed"
    /\ (pc = "align" /\ NeedsTempoConversion(Val(cfg).preserve_bpm,
                                             Val(original_bpm), TARGET_BPM)) =>
          /\ (~tc.success_atempo /\ ~tc.success_asetrate) =>
                working_file = "input"
          /\ working_file = "atempo" =>
                (tc.success_atempo /\ <<cur, "atempo">> \in temp_disk)
          /\ working_file = "asetrate" =>
                (tc.success_asetrate /\ <<cur, "asetrate">> \in temp_disk)
          /\ working_file \in {"input", "atempo", "asetrate"}

(***************************************************************************)
(* C11: when process_wav_with_beat_alignment finishes for a file, by       *)
(* returning any status or by an exception raised in the tempo conversion, *)
(* the sample-rate conversion or the windowing, none of the three temp     *)
(* files of that file is on disk.  Violated: the removals of lines 449-460 *)
(* are ordinary statements after the windower call, not a finally clause,  *)
(* so an exception raised before them skips them.                          *)
(***************************************************************************)
C11_NoTempFilesLeft ==
    pc = "handle" => temp_disk \cap TempNames(cur) = {}

\* the condition of lines 265-266 on what the detection returned, with a
\* missing downbeat array counted as no downbeats
FallbackCase(det, confidence_threshold) ==
    \/ IsNone(det.beat_times)
    \/ det.confidence < confidence_threshold
    \/ Len(Val(det.beat_times)) < 4
    \/ IsNone(det.downbeat_indices)
    \/ Len(Val(det.downbeat_indices)) = 0

\* sample i (0-based) of the clip the finished call returned
AlignOut(i) == Val(Val(a_ret).wav)[i + 1]

(***************************************************************************)
(* C12: if beat data is missing, the confidence is below the threshold,    *)
(* fewer than 4 beats were found or there are no downbeats, a successful   *)
(* call returns the whole buffer from sample 0 forced to the target length *)
(* (sample i of the clip is sample i mod L of the buffer) and marks it     *)
(* aligned = false, with no start sample recorded.                         *)
(***************************************************************************)
C12_FallbackPath ==
    (AlignSucceeded /\ FallbackCase(a_det, Val(a_args).confidence_threshold)) =>
        /\ Len(Val(Val(a_ret).wav)) = AlignTarget
        /\ \A i \in 0..(AlignTarget - 1) : AlignOut(i) = (i % a_len) + 1
        /\ AlignInfo.aligned = FALSE
        /\ "start_sample" \notin AlignInfo.keys

\* confidence 0.25 under the threshold 0.3, with four or more beats and a
\* first downbeat after sample 0: the clip still starts at sample 0
C12_Witness ==
    /\ AlignSucceeded
    /\ a_det.confidence = 25
    /\ Val(a_args).confidence_threshold = 30
    /\ ~IsNone(a_det.beat_times) /\ ~IsNone(a_det.downbeat_indices)
    /\ Len(Val(a_det.beat_times)) >= 4
    /\ Len(Val(a_det.downbeat_indices)) > 0
    /\ BeatSamples(Val(a_det.beat_times), Val(a_args).target_sample_rate)
           [Val(a_det.downbeat_indices)[1] + 1] \in 1..(a_len - 1)
    /\ AlignTarget > 0
    /\ AlignOut(0) = 1
    /\ AlignInfo.confidence = 25
    /\ AlignInfo.aligned = FALSE

\* the finished call returned from the aligned path (line 335): only that
\* return records start_sample
AlignedReturn == AlignSucceeded /\ "start_sample" \in AlignInfo.keys

AlignBeatSamples ==
    BeatSamples(Val(a_det.beat_times), Val(a_args).target_sample_rate)

AlignDownbeats == Val(a_det.downbeat_indices)

\* positions k in the downbeat sequence whose downbeat has at least
\* target_beats beats from it to the end of the beat sequence
AlignQualifying ==
    {k \in 1..Len(AlignDownbeats) :
        Len(AlignBeatSamples) - AlignDownbeats[k] >= Val(a_args).target_beats}

ShortCircuited == a_pc = "done" /\ ~IsNone(a_sig) /\ Val(a_sig) # 4

(***************************************************************************)
(* C16: when detect_beats_and_downbeats short-circuits on a time signature *)
(* other than 4 it returns no beats and confidence 0, and the caller       *)
(* skips the file: no clip is written and the call does not succeed.       *)
(* Violated: the windower takes "no beats" as its fallback case and        *)
(* writes the whole buffer, normalized, with success.                      *)
(***************************************************************************)
C16_ShortCircuitSkips ==
    ShortCircuited =>
        /\ a_det = NoBeats
        /\ a_det.confidence = 0
        /\ IsNone(Val(a_ret).saved)
        /\ ~Val(a_ret).success

(***************************************************************************)
(* estimate_downbeats_librosa on its own: every analysis outcome for up to *)
(* MaxBeats beat frames, in the time signatures the estimator can report.  *)
(***************************************************************************)
TimeSignatures == {3, 4}

\* the valid beat frames are among the beat frames, and find_peaks reports
\* interior positions of a curve of at most num_valid points
DownInputs ==
    UNION {{[num_beats |-> nb, num_valid |-> nv, raised |-> r,
             first_peak |-> fp, time_signature |-> ts] :
               r \in BOOLEAN,
               fp \in {None} \cup {Some(p) : p \in 1..(nv - 2)},
               ts \in TimeSignatures} :
           <<nb, nv>> \in {x \in (0..MaxBeats) \X (0..MaxBeats) : x[2] <= x[1]}}

InitDown ==
    /\ LenIdle /\ AlignIdle /\ PipeIdle
    /\ f_pc = "ready"
    /\ f_out = None
    /\ \E inp \in DownInputs : f_in = Some(inp)

DownApply ==
    /\ f_pc = "ready"
    /\ f_out' = Some(estimate_downbeats_librosa(
                         Val(f_in).num_beats, Val(f_in).num_valid,
                         Val(f_in).raised, Val(f_in).first_peak,
                         Val(f_in).time_signature))
    /\ f_pc' = "done"
    /\ UNCHANGED <<f_in, lenVars, alignVars, pipeVars>>

NextDown == DownApply

SpecDown == InitDown /\ [][NextDown]_vars

\* the value estimate_downbeats_librosa returned
DownResult == Val(f_out)

\* the analysis was entered (lines 122-167) and failed or found no peak
DownNothingFound ==
    /\ f_pc = "done"
    /\ Val(f_in).num_beats >= Val(f_in).time_signature
    /\ Val(f_in).raised \/ IsNone(Val(f_in).first_peak)

\* the windower's result on a loaded one-sample buffer for four regular
\* beats with the given downbeats and confidence 90 against threshold 30
WindowerOn(downbeat_indices) ==
    align_to_downbeat_and_normalize_beats(
        Some(LoadedWav(1)),
        [beat_times |-> Some(<<0, 1, 2, 3>>),
         downbeat_indices |-> downbeat_indices,
         detected_bpm |-> Some(120), confidence |-> 90],
        1, 1, 30, TRUE, Some(LoadedWav(1)), TRUE)

(***************************************************************************)
(* C17: whenever the onset/chroma computation fails or the combined        *)
(* strength curve has no peak, estimate_downbeats_librosa returns an empty *)
(* sequence (not a missing value), and the windower given that result      *)
(* takes the zero-downbeats fallback and keeps the detected confidence.    *)
(* Violated: with no peak the function returns None, and the windower      *)
(* then ends in its exception handler with confidence 0.                   *)
(***************************************************************************)
C17_EmptyWhenNothingFound ==
    DownNothingFound =>
        /\ DownResult = Some(<< >>)
        /\ Val(WindowerOn(DownResult).beat_info).keys = FallbackKeys
        /\ Val(WindowerOn(DownResult).beat_info).confidence = 90

\* the 0-based indices a, a + ts, a + 2*ts, ... below limit, in order
IsStride(indices, a, ts, limit) ==
    /\ \A k \in 1..Len(indices) : indices[k] = a + (k - 1) * ts
    /\ \A k \in 1..Len(indices) : indices[k] < limit
    /\ a + Len(indices) * ts >= limit

\* a non-empty array was returned
DownNonEmpty == f_pc = "done" /\ ~IsNone(DownResult) /\ Val(DownResult) # << >>

\* the beat frames the stride runs over: all of them when there are fewer
\* than time_signature (line 119), else those inside the onset envelope
DownLimit ==
    IF Val(f_in).num_beats < Val(f_in).time_signature
    THEN Val(f_in).num_beats ELSE Val(f_in).num_valid

MaxConfTick == 7

\* np.diff(beat_times)
Diff(beat_times) ==
    [i \in 1..(Len(beat_times) - 1) |-> beat_times[i + 1] - beat_times[i]]

RECURSIVE SumSeq(_)
SumSeq(q) == IF q = << >> THEN 0 ELSE Head(q) + SumSeq(Tail(q))

SumSquares(q) == SumSeq([i \in 1..Len(q) |-> q[i] * q[i]])

\* n*Q - S*S: n*n times the variance of the gaps
ScaledVariance(intervals) ==
    Len(intervals) * SumSquares(intervals) - SumSeq(intervals) * SumSeq(intervals)

\* coefficient_of_variation * 2 in hundredths, rounded up (at most 201),
\* for a positive sum of gaps S
TwiceCv(V, S) ==
    CHOOSE k \in 0..201 :
        /\ k = 201 \/ k * k * S * S >= 40000 * V
        /\ \A j \in 0..(k - 1) : j * j * S * S < 40000 * V

\* mutant: the lower clamp max(0.0, ...) is missing
calculate_beat_confidence_no_floor(beat_times) ==
    IF Len(beat_times) < 3 THEN 0
    ELSE LET intervals == Diff(beat_times)
             S == SumSeq(intervals)
         IN  IF Len(intervals) = 0 THEN 0
             ELSE IF S = 0 THEN 0
             ELSE IF S < 0 THEN 100
             ELSE LET confidence == 100 - TwiceCv(ScaledVariance(intervals), S)
                  IN  Min(100, confidence)

calculate_beat_confidence(beat_times) ==
    IF Len(beat_times) < 3 THEN 0
    ELSE LET intervals == Diff(beat_times)
             S == SumSeq(intervals)
         IN  IF Len(intervals) = 0 THEN 0
             ELSE IF S = 0 THEN 0             \* mean_interval == 0
             ELSE IF S < 0 THEN 100           \* 1 - 2*cv > 1, cut to 1
             ELSE LET confidence ==
                          Max(0, 100 - TwiceCv(ScaledVariance(intervals), S))
                  IN  Min(100, confidence)

\* beat times as the beat tracker gives them: strictly increasing
ConfInputs ==
    UNION {{bt \in [1..n -> 0..MaxConfTick] :
               \A i \in 1..(n - 1) : bt[i] < bt[i + 1]} : n \in 0..MaxBeats}

InitConf ==
    /\ LenIdle /\ AlignIdle /\ PipeIdle
    /\ f_pc = "ready"
    /\ f_out = None
    /\ \E beat_times \in ConfInputs : f_in = Some(beat_times)

ConfApply ==
    /\ f_pc = "ready"
    /\ f_out' = Some(calculate_beat_confidence(Val(f_in)))
    /\ f_pc' = "done"
    /\ UNCHANGED <<f_in, lenVars, alignVars, pipeVars>>

NextConf == ConfApply

SpecConf == InitConf /\ [][NextConf]_vars

\* the gaps of the beat times given, their sum, and n*n times their variance
ConfGaps == Diff(Val(f_in))
ConfSum == SumSeq(ConfGaps)
ConfVar == ScaledVariance(ConfGaps)

(***************************************************************************)
(* C19: calculate_beat_confidence returns a value in [0, 1]; 0 for fewer   *)
(* than 3 beats; for 3 or more it is 1 - 2*(std/mean of the gaps) clamped  *)
(* to [0, 1]: equally spaced beats give 1, a coefficient of variation of   *)
(* 0.5 or more gives 0, and in between the result c (hundredths, rounded   *)
(* down) satisfies c <= 100*(1 - 2*std/mean) < c + 1.                      *)
(***************************************************************************)
C19_ConfidenceRange ==
    f_pc = "done" =>
        LET c == Val(f_out)
        IN  /\ c \in 0..100
            /\ Len(Val(f_in)) < 3 => c = 0
            /\ Len(Val(f_in)) >= 3 =>
                  /\ (\A i \in 1..Len(ConfGaps) : ConfGaps[i] = ConfGaps[1])
                         => c = 100
                  /\ 4 * ConfVar >= ConfSum * ConfSum => c = 0
                  /\ 4 * ConfVar < ConfSum * ConfSum =>
                        /\ (100 - c) * (100 - c) * ConfSum * ConfSum
                               >= 40000 * ConfVar
                        /\ c < 100 =>
                              (99 - c) * (99 - c) * ConfSum * ConfSum
                                  < 40000 * ConfVar

\* irregular beats whose coefficient of variation is above 0.5: the raw
\* value 1 - 2*cv is negative and the result is 0
C19_Witness ==
    /\ f_pc = "done"
    /\ Len(Val(f_in)) >= 3
    /\ 4 * ConfVar > ConfSum * ConfSum
    /\ Val(f_out) = 0

(***************************************************************************)
(* estimate_time_signature (preprocess.py:66-101) as a function of what    *)
(* the analysis yields: an exception anywhere in the try block, the number *)
(* of beat frames, and the positions (0-based, increasing) of the peaks    *)
(* find_peaks reports on the beat strengths.                               *)
(***************************************************************************)
MaxGap == 9
MaxPeaks == 4
ManyBeats == 24

\* np.histogram(intervals, bins=np.arange(1, 9)): seven bins with left edges
\* 1..7; bin b holds the distances d with b <= d < b + 1, the last bin also
\* takes d = 8, and distances outside 1..8 are not counted
Histogram(intervals) ==
    [b \in 1..7 |->
        Cardinality({i \in 1..Len(intervals) :
                        \/ intervals[i] = b
                        \/ b = 7 /\ intervals[i] = 8})]

\* np.argmax: the first index holding the maximum
ArgMax(hist) ==
    CHOOSE b \in DOMAIN hist :
        /\ \A c \in DOMAIN hist : hist[c] <= hist[b]
        /\ \A c \in DOMAIN hist : c < b => hist[c] < hist[b]

\* mutant: the estimate is returned whatever it is
estimate_time_signature_any_distance(raised, num_beats, peaks) ==
    IF raised THEN 0
    ELSE IF num_beats < 8 THEN 4
    ELSE IF Len(peaks) > 2
    THEN ArgMax(Histogram(Diff(peaks)))
    ELSE 4

estimate_time_signature(raised, num_beats, peaks) ==
    IF raised THEN 0
    ELSE IF num_beats < 8 THEN 4
    ELSE IF Len(peaks) > 2
    THEN LET intervals == Diff(peaks)
             hist == Histogram(intervals)
             est == ArgMax(hist)
         IN  IF Len(intervals) > 0 /\ est \in {3, 4, 6} THEN est ELSE 4
    ELSE 4

\* peaks from a first position on, by the distances between them
RECURSIVE PeaksFrom(_, _)
PeaksFrom(first, gaps) ==
    IF gaps = << >> THEN <<first>>
    ELSE <<first>> \o PeaksFrom(first + Head(gaps), Tail(gaps))

\* find_peaks reports interior local maxima: positions 1..num_beats-2, no
\* two of them adjacent
PeakSeqs(num_beats) ==
    {<< >>} \cup
    {p \in {PeaksFrom(first, gaps) :
               first \in 1..2,
               gaps \in UNION {[1..n -> 2..MaxGap] : n \in 0..(MaxPeaks - 1)}} :
        p[Len(p)] <= num_beats - 2}

SigInputs ==
    UNION {{[raised |-> r, num_beats |-> nb, peaks |-> p] :
               r \in BOOLEAN, p \in PeakSeqs(nb)} :
           nb \in {0, 7, 8, ManyBeats}}

InitSig ==
    /\ LenIdle /\ AlignIdle /\ PipeIdle
    /\ f_pc = "ready"
    /\ f_out = None
    /\ \E inp \in SigInputs : f_in = Some(inp)

SigApply ==
    /\ f_pc = "ready"
    /\ f_out' = Some(estimate_time_signature(Val(f_in).raised,
                                             Val(f_in).num_beats,
                                             Val(f_in).peaks))
    /\ f_pc' = "done"
    /\ UNCHANGED <<f_in, lenVars, alignVars, pipeVars>>

NextSig == SigApply

SpecSig == InitSig /\ [][NextSig]_vars

\* the distances between neighbouring peaks
SigDistances == Diff(Val(f_in).peaks)

\* how often distance d occurs
SigCount(d) == Cardinality({i \in 1..Len(SigDistances) : SigDistances[i] = d})

\* the distances that occur most often
SigMostFrequent ==
    {SigDistances[i] : i \in
        {i \in 1..Len(SigDistances) :
            \A j \in 1..Len(SigDistances) :
                SigCount(SigDistances[j]) <= SigCount(SigDistances[i])}}

\* the beats were tracked and there are at least 8 of them
SigAnalysed == f_pc = "done" /\ ~Val(f_in).raised /\ Val(f_in).num_beats >= 8

(***************************************************************************)
(* C20 as stated: 4 for fewer than 8 beats; the result is one of 0, 3, 4,  *)
(* 6; it is the most frequent inter-peak distance only if that is 3, 4 or  *)
(* 6 and there are more than two peaks, 4 otherwise, and 0 only on a       *)
(* failure.  (On a tie any of the most frequent distances is accepted.)    *)
(* Violated: distances above 8 are left out of the histogram, so a less    *)
(* frequent 3 is returned when the most frequent distance is 9.            *)
(***************************************************************************)
C20_MostFrequentDistance ==
    f_pc = "done" =>
        /\ Val(f_out) \in {0, 3, 4, 6}
        /\ Val(f_out) = 0 => Val(f_in).raised
        /\ (~Val(f_in).raised /\ Val(f_in).num_beats < 8) => Val(f_out) = 4
        /\ SigAnalysed =>
              /\ Val(f_out) # 4 =>
                    /\ Len(Val(f_in).peaks) > 2
                    /\ Val(f_out) \in SigMostFrequent
              /\ Val(f_out) = 4 =>
                    \/ Len(Val(f_in).peaks) <= 2
                    \/ ~(SigMostFrequent \subseteq {3, 6})

\* how many distances fall into histogram bin b of 1..7 (bin 7 holds 7 and 8)
SigBinCount(b) == SigCount(b) + (IF b = 7 THEN SigCount(8) ELSE 0)

\* the fullest bin, the lowest one on a tie
SigFullestBin ==
    CHOOSE b \in 1..7 :
        /\ \A c \in 1..7 : SigBinCount(c) <= SigBinCount(b)
        /\ \A c \in 1..(b - 1) : SigBinCount(c) < SigBinCount(b)

(***************************************************************************)
(* C20 amended: 4 for fewer than 8 beats; the result is one of 0, 3, 4, 6; *)
(* it is the most frequent inter-peak distance among the distances 1..8    *)
(* (larger ones are not counted, 7 and 8 are counted together, the         *)
(* smallest wins a tie) only if that is 3, 4 or 6 and there are more than  *)
(* two peaks, 4 otherwise, and 0 only on a failure.                        *)
(***************************************************************************)
C20_MostFrequentBinned ==
    f_pc = "done" =>
        /\ Val(f_out) \in {0, 3, 4, 6}
        /\ Val(f_out) = 0 => Val(f_in).raised
        /\ (~Val(f_in).raised /\ Val(f_in).num_beats < 8) => Val(f_out) = 4
        /\ SigAnalysed =>
              Val(f_out) = IF /\ Len(Val(f_in).peaks) > 2
                              /\ SigFullestBin \in {3, 4, 6}
                           THEN SigFullestBin ELSE 4

\* the most frequent distance is above 8 and a distance of 3 or 6 is returned
C20_Witness ==
    /\ SigAnalysed
    /\ Len(Val(f_in).peaks) > 2
    /\ \A d \in SigMostFrequent : d > 8
    /\ Val(f_out) \in {3, 6}
    /\ SigCount(Val(f_out)) > 0

(***************************************************************************)
(* The atempo chain of tempo_convert_ffmpeg on its own (lines 670-696),    *)
(* for every pair of positive whole BPM values up to MaxChainBpm.          *)
(***************************************************************************)
MaxChainBpm == 7

\* a * b for finite fractions
FracMul(a, b) == Frac(a.n * b.n, a.d * b.d)

RECURSIVE FracProduct(_)
FracProduct(factors) ==
    IF factors = << >> THEN One
    ELSE FracMul(Head(factors), FracProduct(Tail(factors)))

InitChain ==
    /\ LenIdle /\ AlignIdle /\ PipeIdle
    /\ f_pc = "ready"
    /\ f_out = None
    /\ \E target_bpm \in 1..MaxChainBpm, source_bpm \in 1..MaxChainBpm :
          f_in = Some([target_bpm |-> target_bpm, original_bpm |-> source_bpm])

\* lines 671-683, 689 and 695-696: the ratio, the branch, and the single
\* factor of the else branch
AtempoBegin ==
    /\ f_pc = "ready"
    /\ LET speed_ratio == SpeedRatio(Val(f_in).target_bpm, Val(f_in).original_bpm)
           branch == ChainBranch(speed_ratio)
       IN  /\ f_out' = Some([speed_ratio |-> speed_ratio, branch |-> branch,
                             remaining |-> speed_ratio,
                             atempo_chain |-> IF branch = "single"
                                              THEN <<speed_ratio>> ELSE << >>])
           /\ f_pc' = IF branch = "single" THEN "built" ELSE "loop"
    /\ UNCHANGED <<f_in, lenVars, alignVars, pipeVars>>

\* one iteration of the while loop (lines 685-688 or 691-694)
AtempoIterate ==
    /\ f_pc = "loop"
    /\ ChainLoopRuns(Val(f_out).branch, Val(f_out).remaining)
    /\ LET factor == ChainFactor(Val(f_out).branch, Val(f_out).remaining)
       IN  f_out' = Some([Val(f_out) EXCEPT
                            !.atempo_chain = Append(@, factor),
                            !.remaining = FracDiv(@, factor)])
    /\ UNCHANGED <<f_pc, f_in, lenVars, alignVars, pipeVars>>

\* the loop condition is false
AtempoEnd ==
    /\ f_pc = "loop"
    /\ ~ChainLoopRuns(Val(f_out).branch, Val(f_out).remaining)
    /\ f_pc' = "built"
    /\ UNCHANGED <<f_in, f_out, lenVars, alignVars, pipeVars>>

NextChain ==
    \/ AtempoBegin
    \/ AtempoIterate
    \/ AtempoEnd

SpecChain == InitChain /\ [][NextChain]_vars

\* a lies in [0.5, 2.0]
WithinAtempoLimits(a) == ~FracLess(a, Half) /\ ~FracLess(Two, a)

(***************************************************************************)
(* C21: for every speed ratio > 0 the atempo chain built is non-empty,     *)
(* every factor lies within [0.5, 2.0] and the product of the factors is   *)
(* the ratio; a ratio within [0.5, 2.0] gives the single factor equal to   *)
(* the ratio.                                                              *)
(***************************************************************************)
C21_ChainDecomposes ==
    f_pc = "built" =>
        LET chain == Val(f_out).atempo_chain
            ratio == Frac(Val(f_in).target_bpm, Val(f_in).original_bpm)
        IN  /\ chain # << >>
            /\ \A k \in 1..Len(chain) : WithinAtempoLimits(chain[k])
            /\ FracProduct(chain) = ratio
            /\ WithinAtempoLimits(ratio) => chain = <<ratio>>

\* a ratio above 4 was split into three factors, the last one strictly
\* between 1 and 2
C21_Witness ==
    /\ f_pc = "built"
    /\ Len(Val(f_out).atempo_chain) = 3
    /\ Val(f_out).atempo_chain[1] = Two
    /\ Val(f_out).atempo_chain[2] = Two
    /\ FracLess(One, Val(f_out).atempo_chain[3])
    /\ FracLess(Val(f_out).atempo_chain[3], Two)
    /\ FracProduct(Val(f_out).atempo_chain) = Val(f_out).speed_ratio

(***************************************************************************)
(* detect_bpm (preprocess.py:640-655): the extractor's BPM if it lies in   *)
(* 30..300, else 120; 120 too when anything raises.                        *)
(***************************************************************************)
\* BPM values the rhythm extractor may report
RawBpmValues == {0, 29, 30, 110, 115, 120, 130, 300, 301}

\* mutant: the sanity check has no upper limit
detect_bpm_no_upper_limit(raised, bpm) ==
    IF raised THEN 120
    ELSE IF 30 <= bpm THEN bpm
    ELSE 120

detect_bpm(raised, bpm) ==
    IF raised THEN 120
    ELSE IF 30 <= bpm /\ bpm <= 300 THEN bpm
    ELSE 120

\* every value detect_bpm can return
DetectBpmResults == {detect_bpm(r, b) : r \in BOOLEAN, b \in RawBpmValues}

(***************************************************************************)
(* The choice between the two candidates of tempo_convert_ffmpeg on its    *)
(* own (lines 724-754): whether each command succeeded, whether its output *)
(* file exists, and the BPM detect_bpm reports for it.                     *)
(***************************************************************************)
InitSelect ==
    /\ LenIdle /\ AlignIdle /\ PipeIdle
    /\ f_pc = "ready"
    /\ f_out = None
    /\ \E success_atempo \in BOOLEAN, exists_atempo \in BOOLEAN,
          success_asetrate \in BOOLEAN, exists_asetrate \in BOOLEAN,
          bpm_atempo \in DetectBpmResults, bpm_asetrate \in DetectBpmResults :
          f_in = Some([success_atempo |-> success_atempo,
                       exists_atempo |-> exists_atempo,
                       success_asetrate |-> success_asetrate,
                       exists_asetrate |-> exists_asetrate,
                       bpm_atempo |-> bpm_atempo,
                       bpm_asetrate |-> bpm_asetrate])

SelectApply ==
    /\ f_pc = "ready"
    /\ f_out' = Some(SelectBest(
                        Val(f_in).success_atempo /\ Val(f_in).exists_atempo,
                        Abs(Val(f_in).bpm_atempo - TARGET_BPM),
                        Val(f_in).success_asetrate /\ Val(f_in).exists_asetrate,
                        Abs(Val(f_in).bpm_asetrate - TARGET_BPM)))
    /\ f_pc' = "done"
    /\ UNCHANGED <<f_in, lenVars, alignVars, pipeVars>>

NextSelect == SelectApply

SpecSelect == InitSelect /\ [][NextSelect]_vars

\* the candidates that succeeded, and their distances to the target BPM
AtempoSucceeded == Val(f_in).success_atempo /\ Val(f_in).exists_atempo
AsetrateSucceeded == Val(f_in).success_asetrate /\ Val(f_in).exists_asetrate
AtempoDistance == Abs(Val(f_in).bpm_atempo - TARGET_BPM)
AsetrateDistance == Abs(Val(f_in).bpm_asetrate - TARGET_BPM)

(***************************************************************************)
(* C22: of the candidates that succeeded, tempo_convert_ffmpeg returns the *)
(* one whose detected BPM is nearer to the target; the only one when one   *)
(* succeeded; the atempo candidate on an exact tie.                        *)
(***************************************************************************)
C22_CloserCandidate ==
    f_pc = "done" =>
        /\ (AtempoSucceeded /\ ~AsetrateSucceeded) => Val(f_out) = "atempo"
        /\ (~AtempoSucceeded /\ AsetrateSucceeded) => Val(f_out) = "asetrate"
        /\ (AtempoSucceeded /\ AsetrateSucceeded) =>
              /\ AtempoDistance < AsetrateDistance => Val(f_out) = "atempo"
              /\ AsetrateDistance < AtempoDistance => Val(f_out) = "asetrate"
              /\ AtempoDistance = AsetrateDistance => Val(f_out) = "atempo"
        /\ Val(f_out) = "atempo" => AtempoSucceeded
        /\ Val(f_out) = "asetrate" => AsetrateSucceeded

\* both succeeded at the same distance on either side of the target, and
\* the atempo candidate was returned
C22_Witness ==
    /\ f_pc = "done"
    /\ AtempoSucceeded /\ AsetrateSucceeded
    /\ Val(f_in).bpm_atempo = 130 /\ Val(f_in).bpm_asetrate = 110
    /\ Val(f_out) = "atempo"

(***************************************************************************)
(* get_file_bpm (preprocess.py:838-862) with get_bpm_from_metadata (lines  *)
(* 628-638).  A "bpm" annotation is a JSON value: a number, the decimal    *)
(* text of a number, or something float() cannot convert.                  *)
(***************************************************************************)
AnnotatedNumbers == {0 - 60, 0, 100, 400}

AnnotationValues ==
    {[kind |-> k, value |-> v] : k \in {"number", "text"}, v \in AnnotatedNumbers}
        \cup {[kind |-> "malformed", value |-> 0]}

\* float(x)
ToFloat(annotation) ==
    IF annotation.kind = "malformed" THEN [raised |-> TRUE, value |-> None]
    ELSE [raised |-> FALSE, value |-> Some(annotation.value)]

\* lines 630-638: None when the id is not listed or has no bpm annotation
get_bpm_from_metadata(id_listed, annotation) ==
    IF id_listed /\ ~IsNone(annotation) THEN ToFloat(Val(annotation))
    ELSE [raised |-> FALSE, value |-> None]

\* has_metadata: the metadata argument is a non-empty dict
get_file_bpm(has_metadata, id_listed, annotation, detect_raised, raw_bpm) ==
    LET bpm == get_bpm_from_metadata(id_listed, annotation)
    IN  IF has_metadata /\ bpm.raised THEN bpm
        ELSE IF has_metadata /\ ~IsNone(bpm.value) THEN bpm
        ELSE [raised |-> FALSE, value |-> Some(detect_bpm(detect_raised, raw_bpm))]

\* an id can be listed only in a non-empty metadata dict, and annotated only
\* if it is listed
BpmInputs ==
    {inp \in [has_metadata : BOOLEAN, id_listed : BOOLEAN,
              annotation : {None} \cup {Some(a) : a \in AnnotationValues},
              detect_raised : BOOLEAN, raw_bpm : RawBpmValues] :
        /\ inp.id_listed => inp.has_metadata
        /\ ~IsNone(inp.annotation) => inp.id_listed}

InitBpm ==
    /\ LenIdle /\ AlignIdle /\ PipeIdle
    /\ f_pc = "ready"
    /\ f_out = None
    /\ \E inp \in BpmInputs : f_in = Some(inp)

BpmApply ==
    /\ f_pc = "ready"
    /\ f_out' = Some(get_file_bpm(Val(f_in).has_metadata, Val(f_in).id_listed,
                                  Val(f_in).annotation, Val(f_in).detect_raised,
                                  Val(f_in).raw_bpm))
    /\ f_pc' = "done"
    /\ UNCHANGED <<f_in, lenVars, alignVars, pipeVars>>

NextBpm == BpmApply

SpecBpm == InitBpm /\ [][NextBpm]_vars

\* the file's id has a bpm annotation that is a BPM value
BpmAnnotated ==
    /\ ~IsNone(Val(f_in).annotation)
    /\ Val(Val(f_in).annotation).kind # "malformed"

BeforeWindower ==
    {"bpm", "branch", "chain", "atempo", "asetrate", "select", "resample"}

\* inside tempo_convert_ffmpeg
InTempoConversion == {"chain", "atempo", "asetrate", "select"}

(***************************************************************************)
(* C24: for each file the stages run in the order gate, BPM resolution,    *)
(* optional tempo conversion, windowing, exact-length enforcement and      *)
(* save.  A file the gate rejected never has its BPM resolved, its tempo   *)
(* converted or the windower run on it; the windower starts only after     *)
(* the tempo conversion (if any) has returned, and finds the working file  *)
(* on disk; the temp files are removed only after the windower returned.   *)
(***************************************************************************)
C24_StageOrder ==
    /\ \A f \in Files :
          GateRejected(f) =>
              /\ InProgress(f) =>
                    /\ pc = "handle"
                    /\ original_bpm = None /\ final_bpm = None
                    /\ tc = NoTempo /\ align_ret = None
              /\ temp_disk \cap TempNames(f) = {}
              /\ IsNone(processed_disk[f])
    /\ pc \in BeforeWindower \cup {"align", "cleanup", "final"} =>
          facts[cur].sig = Some(4)
    /\ pc \in BeforeWindower => align_ret = None
    /\ pc \in (BeforeWindower \ {"bpm"}) \cup {"align", "cleanup", "final"} =>
          original_bpm # None
    /\ pc \in InTempoConversion => tc.running
    /\ pc = "align" =>
          /\ ~tc.running
          /\ final_bpm # None
          /\ align_ret = None
          /\ working_file # "input" => <<cur, working_file>> \in temp_disk
    /\ pc \in {"cleanup", "final"} => align_ret # None
    /\ pc = "final" => temp_disk \cap TempNames(cur) = {}

\* the windower has returned a clip made from the atempo candidate, and the
\* candidate is still on disk: the removals come next
C24_Witness ==
    /\ pc = "cleanup"
    /\ working_file = "atempo"
    /\ <<cur, "atempo">> \in temp_disk
    /\ Val(align_ret).success
    /\ final_bpm = Some(TARGET_BPM)

\* the records of the files that ended with status success whose beat_info
\* is marked aligned
AlignedRecords ==
    {i \in 1..Len(beat_alignment_stats) :
        beat_alignment_stats[i].beat_info.aligned}

(***************************************************************************)
(* C25: the summary written after a batch in which some file succeeded has *)
(* total_files = the number of files that ended with status success,       *)
(* successfully_aligned = the number of those marked aligned, 0 <=         *)
(* successfully_aligned <= total_files and alignment_success_rate =        *)
(* successfully_aligned / total_files; skipped and failed files are not    *)
(* counted.  Violated: when a file took the aligned path, json.dump of the *)
(* statistics raises TypeError on its start_sample (C9) before the summary *)
(* is computed, and no summary is written.                                 *)
(***************************************************************************)
C25_SummaryCounts ==
    (BatchOver /\ file_mappings # {}) =>
        /\ ~IsNone(reports.summary)
        /\ Val(reports.summary).total_files = Cardinality(file_mappings)
        /\ Val(reports.summary).successfully_aligned = Cardinality(AlignedRecords)
        /\ Val(reports.summary).successfully_aligned \in
              0..Val(reports.summary).total_files
        /\ Val(reports.summary).alignment_success_rate =
              [n |-> Cardinality(AlignedRecords), d |-> Cardinality(file_mappings)]

(***************************************************************************)
(* Two calls of process_wav_with_beat_alignment (lines 420-460) on two     *)
(* input files, run one after the other or as two parallel workers, on     *)
(* one working directory.  Only what touches the temp files is kept: the   *)
(* two ffmpeg commands and the choice of tempo_convert_ffmpeg, the         *)
(* sample-rate conversion, the windower's load and the removals.           *)
(* f_in holds the setting, f_pc each worker's position, f_out the working  *)
(* directory and the workers' locals.                                      *)
(***************************************************************************)
Workers == {1, 2}

TempKinds == {"atempo", "asetrate", "before"}

\* the basename of worker w's input file
Basename(w) == IF Val(f_in).same_basename THEN 1 ELSE w

\* temp_atempo_<basename>, temp_asetrate_<basename>,
\* temp_before_alignment_<basename> (lines 422, 675-676)
TempName(w, kind) == <<Basename(w), kind>>

\* mutant: a candidate counts as soon as its file exists
CandidateUsable_exists_only(success, exists) ==
    exists

\* success_atempo and os.path.exists(output_atempo) (lines 729, 739)
CandidateUsable(success, exists) ==
    success /\ exists

InitPar ==
    /\ LenIdle /\ AlignIdle /\ PipeIdle
    /\ \E parallel \in BOOLEAN, same_basename \in BOOLEAN :
          f_in = Some([parallel |-> parallel, same_basename |-> same_basename])
    /\ f_pc = [w \in Workers |-> "branch"]
    /\ f_out = Some([disk |-> [name \in Workers \X TempKinds |-> 0],
                     success_atempo |-> [w \in Workers |-> FALSE],
                     success_asetrate |-> [w \in Workers |-> FALSE],
                     working_file |-> [w \in Workers |-> "input"],
                     read |-> [w \in Workers |-> "nothing"],
                     removed_foreign |-> [w \in Workers |-> FALSE]])

\* worker w may take a step: always when the workers run in parallel; one
\* after the other, the second call starts when the first has ended
Scheduled(w) ==
    \/ Val(f_in).parallel
    \/ w = 1
    \/ f_pc[1] \in {"done", "raised"}

\* the working directory after worker w's command wrote (or not) its file
Written(disk, w, kind, written) ==
    IF written THEN [disk EXCEPT ![TempName(w, kind)] = w] ELSE disk

\* line 425
ParBranch(w) ==
    /\ f_pc[w] = "branch"
    /\ Scheduled(w)
    /\ \E convert \in BOOLEAN :
          f_pc' = [f_pc EXCEPT ![w] = IF convert THEN "atempo" ELSE "resample"]
    /\ UNCHANGED <<f_in, f_out, lenVars, alignVars, pipeVars>>

\* lines 698-707
ParAtempo(w) ==
    /\ f_pc[w] = "atempo"
    /\ Scheduled(w)
    /\ \E outcome \in FfmpegOutcomes, partial \in BOOLEAN :
          LET r == run_ffmpeg_command(outcome)
          IN  /\ (outcome # "nonzero") => ~partial
              /\ IF r.raised
                 THEN /\ f_pc' = [f_pc EXCEPT ![w] = "raised"]
                      /\ f_out' = f_out
                 ELSE /\ f_pc' = [f_pc EXCEPT ![w] = "asetrate"]
                      /\ f_out' = Some([Val(f_out) EXCEPT
                            !.success_atempo[w] = r.success,
                            !.disk = Written(@, w, "atempo",
                                             r.success \/ partial)])
    /\ UNCHANGED <<f_in, lenVars, alignVars, pipeVars>>

\* lines 709-722
ParAsetrate(w) ==
    /\ f_pc[w] = "asetrate"
    /\ Scheduled(w)
    /\ \E info_ok \in BOOLEAN, outcome \in FfmpegOutcomes, partial \in BOOLEAN :
          LET r == run_ffmpeg_command(outcome)
          IN  /\ (outcome # "nonzero") => ~partial
              /\ ~info_ok => outcome = "exit0"
              /\ IF ~info_ok \/ r.raised
                 THEN /\ f_pc' = [f_pc EXCEPT ![w] = "raised"]
                      /\ f_out' = f_out
                 ELSE /\ f_pc' = [f_pc EXCEPT ![w] = "select"]
                      /\ f_out' = Some([Val(f_out) EXCEPT
                            !.success_asetrate[w] = r.success,
                            !.disk = Written(@, w, "asetrate",
                                             r.success \/ partial)])
    /\ UNCHANGED <<f_in, lenVars, alignVars, pipeVars>>

\* lines 724-754 and line 429
ParSelect(w) ==
    /\ f_pc[w] = "select"
    /\ Scheduled(w)
    /\ \E bpm_atempo \in CandidateBpmValues, bpm_asetrate \in CandidateBpmValues :
          f_out' = Some([Val(f_out) EXCEPT !.working_file[w] =
              SelectBest(
                  CandidateUsable(Val(f_out).success_atempo[w],
                                  Val(f_out).disk[TempName(w, "atempo")] # 0),
                  Abs(bpm_atempo - TARGET_BPM),
                  CandidateUsable(Val(f_out).success_asetrate[w],
                                  Val(f_out).disk[TempName(w, "asetrate")] # 0),
                  Abs(bpm_asetrate - TARGET_BPM))])
    /\ f_pc' = [f_pc EXCEPT ![w] = "align"]
    /\ UNCHANGED <<f_in, lenVars, alignVars, pipeVars>>

\* lines 432-441
ParResample(w) ==
    /\ f_pc[w] = "resample"
    /\ Scheduled(w)
    /\ \E info_ok \in BOOLEAN, differs \in BOOLEAN, written \in BOOLEAN :
          /\ ~info_ok => (~differs /\ ~written)
          /\ ~differs => ~written
          /\ IF ~info_ok \/ (differs /\ ~written)
             THEN /\ f_pc' = [f_pc EXCEPT ![w] = "raised"]
                  /\ f_out' = f_out
             ELSE /\ f_pc' = [f_pc EXCEPT ![w] = "align"]
                  /\ f_out' = Some([Val(f_out) EXCEPT
                        !.working_file[w] = IF differs THEN "before" ELSE "input",
                        !.disk = Written(@, w, "before", differs)])
    /\ UNCHANGED <<f_in, lenVars, alignVars, pipeVars>>

\* lines 444-447: the windower loads the working file; read tells whose
\* file it found under that name
ParAlign(w) ==
    /\ f_pc[w] = "align"
    /\ Scheduled(w)
    /\ LET loaded == Val(f_out).working_file[w]
           owner == IF loaded = "input" THEN w
                    ELSE Val(f_out).disk[TempName(w, loaded)]
       IN  f_out' = Some([Val(f_out) EXCEPT !.read[w] =
                  IF loaded = "input" THEN "input"
                  ELSE IF owner = 0 THEN "missing"
                  ELSE IF owner = w THEN "own"
                  ELSE "foreign"])
    /\ f_pc' = [f_pc EXCEPT ![w] = "cleanup"]
    /\ UNCHANGED <<f_in, lenVars, alignVars, pipeVars>>

\* lines 449-460: every temp name of the worker that exists is removed
ParCleanup(w) ==
    /\ f_pc[w] = "cleanup"
    /\ Scheduled(w)
    /\ LET names == {TempName(w, kind) : kind \in TempKinds}
       IN  f_out' = Some([Val(f_out) EXCEPT
              !.removed_foreign[w] =
                  \E name \in names : Val(f_out).disk[name] \notin {0, w},
              !.disk = [name \in Workers \X TempKinds |->
                           IF name \in names THEN 0 ELSE @[name]]])
    /\ f_pc' = [f_pc EXCEPT ![w] = "done"]
    /\ UNCHANGED <<f_in, lenVars, alignVars, pipeVars>>

NextPar ==
    \E w \in Workers :
        \/ ParBranch(w)
        \/ ParAtempo(w)
        \/ ParAsetrate(w)
        \/ ParSelect(w)
        \/ ParResample(w)
        \/ ParAlign(w)
        \/ ParCleanup(w)

SpecPar == InitPar /\ [][NextPar]_vars

(***************************************************************************)
(* C26: the temp file names depend on the basename of the input only.      *)
(* With strictly sequential processing no call's windower ever reads a     *)
(* temp file written for another input file, nor finds its working file    *)
(* gone, even when the inputs share a basename and an earlier call left    *)
(* its temp files behind; the same holds for parallel workers whose        *)
(* basenames differ.  (For parallel workers sharing a basename the state   *)
(* C26_Witness is reachable.)                                              *)
(***************************************************************************)
C26_SequentialIsolated ==
    /\ \A v, w \in Workers, kind \in TempKinds :
          (Basename(v) = Basename(w)) <=> (TempName(v, kind) = TempName(w, kind))
    /\ (~Val(f_in).parallel \/ ~Val(f_in).same_basename) =>
          \A w \in Workers : Val(f_out).read[w] \in {"nothing", "input", "own"}
    /\ ~Val(f_in).same_basename =>
          \A w \in Workers : ~Val(f_out).removed_foreign[w]

\* two parallel workers on inputs with one basename: the first one's
\* windower has read the tempo-converted file the second one wrote, and
\* its cleanup has deleted that file
C26_Witness ==
    /\ Val(f_in).parallel
    /\ Val(f_in).same_basename
    /\ f_pc[1] = "done"
    /\ Val(f_out).working_file[1] \in {"atempo", "asetrate"}
    /\ Val(f_out).read[1] = "foreign"
    /\ Val(f_out).removed_foreign[1]

(***************************************************************************)
(* C27: for every BPM the metadata may hold (zero, negative or far from    *)
(* the target included) the loops that build the atempo chain in           *)
(* tempo_convert_ffmpeg always finish, so that the per-file function goes  *)
(* on to the ffmpeg commands and ends with a status.  Violated: for a      *)
(* negative BPM the speed ratio is negative, the loop at line 691 divides  *)
(* remaining by 0.5 for ever, and remaining < 1.0 stays true.              *)
(***************************************************************************)
C27_ChainLoopsFinish ==
    (pc = "chain") ~> (pc = "atempo")

\* tempo_convert_ffmpeg was called for the current file and has returned:
\* only it builds an atempo chain
ConversionAttempted == tc.chain # << >>

\* preserve_bpm is off, a non-zero BPM is known, and it is more than 1.0
\* away from the target
ConversionDue ==
    /\ ~Val(cfg).preserve_bpm
    /\ Val(original_bpm) # 0
    /\ (Val(original_bpm) - TARGET_BPM > 1 \/ TARGET_BPM - Val(original_bpm) > 1)

(***************************************************************************)
(* C28: tempo conversion is attempted exactly when preserve_bpm is off, a  *)
(* non-zero BPM is known and it differs from the target by more than 1.0.  *)
(* Whenever it was attempted, the result of a file that ends with status   *)
(* success reports final_bpm = the target BPM, also when both conversion   *)
(* commands failed and the unconverted input was windowed; otherwise       *)
(* final_bpm is the source BPM, or the target BPM when no BPM is known.    *)
(***************************************************************************)
C28_FinalBpmReported ==
    /\ [](pc \in InTempoConversion => ConversionDue)
    /\ [](pc = "resample" => ~ConversionDue)
    /\ [](pc \in {"align", "cleanup", "final"} =>
             (ConversionAttempted <=> ConversionDue))
    /\ [][(pc = "final" /\ Val(ret').status = "success") =>
             Val(ret').final_bpm =
                 Some(IF ConversionAttempted THEN TARGET_BPM
                      ELSE IF Val(original_bpm) # 0 THEN Val(original_bpm)
                      ELSE TARGET_BPM)]_vars

\* both conversion commands failed for a file annotated with 100 BPM: the
\* unconverted input was windowed with success, and final_bpm is the target
C28_Witness ==
    /\ pc = "final"
    /\ original_bpm = Some(100)
    /\ ConversionAttempted
    /\ ~tc.success_atempo /\ ~tc.success_asetrate
    /\ working_file = "input"
    /\ Val(align_ret).success
    /\ final_bpm = Some(TARGET_BPM)

=============================================================================
